---- MODULE Spec2Model ----
(***************************************************************************)
(* Model of the playback scheduler and capture orchestrator of             *)
(* src/src/components/PreviewStage.tsx (PreviewStage component).           *)
(*                                                                         *)
(* Execution model: one JavaScript thread.  A macrotask (a click handler,  *)
(* an animation-frame callback, a MediaRecorder event) runs to its first   *)
(* await; every continuation of an await is a microtask, and the microtask *)
(* queue is drained (FIFO) before the next macrotask starts.  One action   *)
(* of the model is one such synchronous segment.  React state is read by   *)
(* the handlers at its latest value; the buttons are rendered from that    *)
(* state: a click reaches its handler only while the button's disabled     *)
(* attribute is false.  An encoder that fails delivers error,              *)
(* dataavailable and stop in one task.                                     *)
(*                                                                         *)
(* The match indexer (collectMatches) is a pure function; it is checked    *)
(* under SearchSpec, whose initial states are the articles and keyword     *)
(* texts within the bounds.  The other pure functions have specifications *)
(* of the same kind: TimelineSpec (buildTimeline, clampSpeedMultiplier),   *)
(* LayoutSpec (the snippet split and the line wrap of drawMatchFrame) and  *)
(* ColorSpec (fillStageBackground, hexToRgb).                              *)
(***************************************************************************)
EXTENDS Integers, Sequences, FiniteSets, TLC

\* ---------------------------------------------------------------- bounds
MaxTasks == 4        \* handler / run invocations alive at the same time
MaxRuns == 3         \* of which Play / Export invocations
MaxMatches == 2      \* length of the staged match list
MaxRecorders == 2    \* MediaRecorder objects not yet collected
MaxUrls == 2         \* object URLs that can be live at once
MaxParagraphs == 2   \* paragraphs of the article searched
MaxParagraphLen == 3 \* characters of a paragraph
MaxKeywordsLen == 3  \* characters of the raw keyword text
MaxSnippetLen == 5   \* characters of a short paragraph laid out
MaxOver == 2         \* characters by which a long snippet exceeds its limit
MaxLineWidth == 3    \* the widest text area tried, in character advances
MaxColorLen == 7     \* characters of a color string
MaxArticleLen == 2   \* characters of a paragraph of an article the page fetches

\* ------------------------------------------------------ program constants
INTRO_DURATION == 240

DEFAULT_DURATIONS ==
  [panMs |-> 400, zoomMs |-> 450, highlightMs |-> 200, holdMs |-> 200, transitionMs |-> 120]

CENTERED_MODE_DURATIONS ==
  [panMs |-> 0, zoomMs |-> 0, highlightMs |-> 140, holdMs |-> 120, transitionMs |-> 90]

\* the order of the awaits of the phase chain in startAnimation
\* variant: pan is awaited before intro
PhaseChain_panFirst == <<"pan", "intro", "zoom", "highlight", "hold", "transition">>

\* the phase chain of startAnimation, in the order of its statements
PhaseChain == <<"intro", "pan", "zoom", "highlight", "hold", "transition">>

Tasks == 1..MaxTasks
Recorders == 1..MaxRecorders
Urls == 1..MaxUrls
NoFrame == <<>>
NoFinal == [rec |-> 0, assembled |-> FALSE, aborted |-> FALSE, abortRef |-> FALSE,
            chunks |-> 0, prevUrl |-> 0]
NoExit == [run |-> 0, cancelled |-> FALSE, visited |-> <<>>, executed |-> <<>>]

\* FrameState, scale and highlightAlpha in hundredths
Baseline == [scale |-> 94, offsetY |-> 0, highlightAlpha |-> 0]

\* --------------------------------------------------------------- timeline
\* a JavaScript number: a finite value, held in hundredths (h = 25 is 0.25),
\* or one of the three values that are not finite
Finite(h) == [kind |-> "finite", h |-> h]

NaN == [kind |-> "NaN", h |-> 0]

PlusInfinity == [kind |-> "Infinity", h |-> 0]

MinusInfinity == [kind |-> "-Infinity", h |-> 0]

\* Number.isFinite(value)
isFinite(value) == value.kind = "finite"

\* variant: no lower limit
clampSpeedMultiplier_noFloor(value) ==
  IF ~isFinite(value) THEN 100
  ELSE IF value.h > 400 THEN 400 ELSE value.h

\* clampSpeedMultiplier: the multiplier, in hundredths
clampSpeedMultiplier(value) ==
  IF ~isFinite(value) THEN 100
  ELSE LET upper == IF value.h > 25 THEN value.h ELSE 25   \* Math.max(0.25, value)
       IN IF upper < 400 THEN upper ELSE 400                 \* Math.min(4, ...)

\* variant: the toggle is not consulted
resolveDuration_anyToggle(enabled, base, multiplier) ==
  (base * multiplier + 50) \div 100

\* enabled ? Math.max(0, Math.round(base * multiplier)) : 0, the multiplier in
\* hundredths; Math.round is floor(x + 1/2). The product is exact in floating
\* point for the multipliers used here (multiples of 0.25).
resolveDuration(enabled, base, multiplier) ==
  IF enabled
    THEN LET r == (base * multiplier + 50) \div 100 IN IF r < 0 THEN 0 ELSE r
    ELSE 0

\* variant: the items are returned in reverse order
buildTimeline_reversed(ms, prefs) ==
  [i \in 1..Len(ms) |->
     [keyword |-> ms[Len(ms) + 1 - i].keyword,
      paragraphIndex |-> ms[Len(ms) + 1 - i].paragraphIndex,
      panMs |-> 0, zoomMs |-> 0, highlightMs |-> 0, holdMs |-> 0, transitionMs |-> 0]]

\* buildTimeline(matches, preferences)
buildTimeline(ms, prefs) ==
  LET toggles == prefs.phases
      multiplier == clampSpeedMultiplier(prefs.speedMultiplier)
      baseDurations == IF prefs.playbackMode = "centered"
                         THEN CENTERED_MODE_DURATIONS ELSE DEFAULT_DURATIONS
  IN [i \in 1..Len(ms) |->
        [keyword |-> ms[i].keyword,
         paragraphIndex |-> ms[i].paragraphIndex,
         panMs |-> resolveDuration(toggles.pan, baseDurations.panMs, multiplier),
         zoomMs |-> resolveDuration(toggles.zoom, baseDurations.zoomMs, multiplier),
         highlightMs |-> resolveDuration(toggles.highlight, baseDurations.highlightMs, multiplier),
         holdMs |-> resolveDuration(toggles.hold, baseDurations.holdMs, multiplier),
         transitionMs |-> resolveDuration(toggles.transition, baseDurations.transitionMs, multiplier)]]

\* ---------------------------------------------------------- match indexer
\* A text is a sequence of UTF-16 code units, each named by a string: "Idot" is
\* U+0130 (capital I with dot above), "dot" is U+0307 (combining dot above),
\* "nl" is the line feed.
ParagraphChars == {"a", "A", "Idot"}

KeywordChars == {"a", "A", ",", ";", "nl", " "}

\* the lower case of one code unit in a non-Turkic locale: U+0130 becomes
\* "i" followed by U+0307
lowerCase(c) ==
  CASE c = "A" -> <<"a">>
    [] c = "B" -> <<"b">>
    [] c = "Idot" -> <<"i", "dot">>
    [] OTHER -> <<c>>

RECURSIVE normalizeToken(_)
\* token.toLocaleLowerCase(): the lower case of each code unit in turn, taken
\* half by half
normalizeToken(token) ==
  IF token = <<>> THEN <<>>
  ELSE IF Len(token) = 1 THEN lowerCase(token[1])
  ELSE LET half == Len(token) \div 2
       IN normalizeToken(SubSeq(token, 1, half))
          \o normalizeToken(SubSeq(token, half + 1, Len(token)))

RECURSIVE trimStart(_)
trimStart(text) ==
  IF text # <<>> /\ Head(text) \in {" ", "nl"} THEN trimStart(Tail(text)) ELSE text

RECURSIVE trimEnd(_)
trimEnd(text) ==
  IF text # <<>> /\ text[Len(text)] \in {" ", "nl"}
    THEN trimEnd(SubSeq(text, 1, Len(text) - 1)) ELSE text

\* a map callback that keeps the piece as it is
trim_none(text) == text

\* value.trim()
trim(text) == trimEnd(trimStart(text))

RECURSIVE split(_, _)
\* input.split(/[,;\n]/g): the pieces between separators, cur being the piece
\* read so far
split(input, cur) ==
  IF input = <<>> THEN <<cur>>
  ELSE IF Head(input) \in {",", ";", "nl"} THEN <<cur>> \o split(Tail(input), <<>>)
  ELSE split(Tail(input), Append(cur, Head(input)))

RECURSIVE filterNonEmpty(_)
\* .filter(Boolean)
filterNonEmpty(pieces) ==
  IF pieces = <<>> THEN <<>>
  ELSE IF Head(pieces) = <<>> THEN filterNonEmpty(Tail(pieces))
  ELSE <<Head(pieces)>> \o filterNonEmpty(Tail(pieces))

splitKeywords(input) ==
  LET pieces == split(input, <<>>)
  IN filterNonEmpty([n \in 1..Len(pieces) |-> trim(pieces[n])])

\* haystack.indexOf(needle, from) for a nonempty needle, positions from 0
indexOf(haystack, needle, from) ==
  LET at == {i \in from..(Len(haystack) - Len(needle)) :
               SubSeq(haystack, i + 1, i + Len(needle)) = needle}
  IN IF at = {} THEN -1 ELSE CHOOSE i \in at : \A j \in at : i <= j

RECURSIVE scan(_, _, _, _, _)
\* the while loop of collectMatches for one paragraph and one keyword
scan(haystack, needle, keyword, paragraphIndex, cursor) ==
  IF cursor = -1 THEN <<>>
  ELSE <<[keyword |-> keyword, paragraphIndex |-> paragraphIndex,
          start |-> cursor, end |-> cursor + Len(needle)]>>
       \o scan(haystack, needle, keyword, paragraphIndex,
               indexOf(haystack, needle, cursor + Len(needle)))

\* the matches pushed for paragraph pi (from 0) and keyword entry k (from 1)
scanPair(paras, keywords, pi, k) ==
  LET haystack == normalizeToken(paras[pi + 1])
      needle == normalizeToken(keywords[k])
  IN scan(haystack, needle, keywords[k], pi, indexOf(haystack, needle, 0))

RECURSIVE forEachKeyword(_, _, _, _)
\* normalizedKeywords.forEach(...) from entry k on
forEachKeyword(paras, keywords, pi, k) ==
  IF k > Len(keywords) THEN <<>>
  ELSE scanPair(paras, keywords, pi, k) \o forEachKeyword(paras, keywords, pi, k + 1)

RECURSIVE forEachParagraph(_, _, _)
\* article.paragraphs.forEach(...) from paragraph pi on
forEachParagraph(paras, keywords, pi) ==
  IF pi >= Len(paras) THEN <<>>
  ELSE forEachKeyword(paras, keywords, pi, 1) \o forEachParagraph(paras, keywords, pi + 1)

collectMatches(paras, raw) ==
  LET keywords == splitKeywords(raw)
  IN IF keywords = <<>> THEN <<>> ELSE forEachParagraph(paras, keywords, 0)

\* ------------------------------------------------------------ text layout
BEFORE_SNIPPET_LIMIT == 80

AFTER_SNIPPET_LIMIT == 80

\* the three characters of the ellipsis marker
Ellipsis == <<".", ".", ".">>

\* text.slice(from, to) for 0 <= from: both ends are clamped to the length
slice(text, from, to) ==
  LET lo == IF from < Len(text) THEN from ELSE Len(text)
      hi == IF to < Len(text) THEN to ELSE Len(text)
  IN SubSeq(text, lo + 1, hi)

\* variant: the kept slice is not trimmed
ellipsisLeft_noTrim(text, limit) ==
  IF Len(text) <= limit THEN text
  ELSE Ellipsis \o slice(text, Len(text) - limit, Len(text))

ellipsisLeft(text, limit) ==
  IF Len(text) <= limit THEN text
  ELSE Ellipsis \o trimStart(slice(text, Len(text) - limit, Len(text)))

ellipsisRight(text, limit) ==
  IF Len(text) <= limit THEN text
  ELSE trimEnd(slice(text, 0, limit)) \o Ellipsis

isSpace(c) == c \in {" ", "nl"}

\* text.split(/(\s+)/).filter(Boolean): the maximal runs of white space and of
\* other characters, each from its first position to the next run's
splitRuns(text) ==
  LET starts == {i \in 1..Len(text) : i = 1 \/ isSpace(text[i]) # isSpace(text[i - 1])}
      ends == starts \cup {Len(text) + 1}
      nth(n) == CHOOSE i \in ends : Cardinality({j \in ends : j < i}) = n - 1
  IN [n \in 1..Cardinality(starts) |-> SubSeq(text, nth(n), nth(n + 1) - 1)]

tokenize(text, type) ==
  IF type = "highlight" THEN <<[text |-> text, type |-> type]>>
  ELSE LET segments == splitRuns(text)
       IN [n \in 1..Len(segments) |-> [text |-> segments[n], type |-> type]]

buildTokens(before, target, after) ==
  tokenize(before, "normal") \o tokenize(target, "highlight") \o tokenize(after, "normal")

\* ctx.measureText(text).width in a font whose every character advances by one
measureText(text) == Len(text)

RECURSIVE flatten(_)
\* the segments wrapTokens visits: no empty token, a highlight token whole, a
\* normal token tokenized again
flatten(tokens) ==
  IF tokens = <<>> THEN <<>>
  ELSE LET token == Head(tokens)
       IN (IF token.text = <<>> THEN <<>>
           ELSE IF token.type = "highlight" THEN <<token>>
           ELSE tokenize(token.text, token.type))
          \o flatten(Tail(tokens))

RECURSIVE wrapFrom(_, _, _, _, _)
\* the segments.forEach of wrapTokens from the state (lines, current, width)
wrapFrom(segments, lines, current, width, maxWidth) ==
  IF segments = <<>>
    THEN IF current # <<>> THEN Append(lines, current) ELSE lines
  ELSE LET segment == Head(segments)
           textWidth == measureText(segment.text)
           isWhitespace == trim(segment.text) = <<>>
       IN IF current # <<>> /\ width + textWidth > maxWidth
            THEN IF isWhitespace
                   THEN wrapFrom(Tail(segments), Append(lines, current), <<>>, 0, maxWidth)
                   ELSE wrapFrom(Tail(segments), Append(lines, current), <<segment>>,
                                 textWidth, maxWidth)
            ELSE wrapFrom(Tail(segments), lines, Append(current, segment),
                          width + textWidth, maxWidth)

wrapTokens(tokens, maxWidth) == wrapFrom(flatten(tokens), <<>>, <<>>, 0, maxWidth)

RECURSIVE measureLineWidth(_)
measureLineWidth(line) ==
  IF line = <<>> THEN 0 ELSE measureText(Head(line).text) + measureLineWidth(Tail(line))

\* the snippet split of drawMatchFrame: before, target and after of a match
snippetOf(paragraph, match, prefs) ==
  LET beforeSource == slice(paragraph, 0, match.start)
      afterSource == slice(paragraph, match.end, Len(paragraph))
  IN [before |-> IF prefs.truncateText
                   THEN ellipsisLeft(beforeSource, BEFORE_SNIPPET_LIMIT) ELSE beforeSource,
      target |-> slice(paragraph, match.start, match.end),
      after |-> IF prefs.truncateText
                  THEN ellipsisRight(afterSource, AFTER_SNIPPET_LIMIT) ELSE afterSource]

\* ----------------------------------------------------------------- colors
\* the sixteen hexadecimal digits, in lower and in upper case
HexLower == <<"0", "1", "2", "3", "4", "5", "6", "7", "8", "9", "a", "b", "c", "d", "e", "f">>

HexUpper == <<"0", "1", "2", "3", "4", "5", "6", "7", "8", "9", "A", "B", "C", "D", "E", "F">>

isHexDigit(c) == \E n \in 1..16 : c = HexLower[n] \/ c = HexUpper[n]

hexValue(c) == (CHOOSE n \in 1..16 : c = HexLower[n] \/ c = HexUpper[n]) - 1

RECURSIVE parseInt16(_)
\* parseInt(base, 16) of a text of hexadecimal digits
parseInt16(base) ==
  IF base = <<>> THEN 0
  ELSE 16 * parseInt16(SubSeq(base, 1, Len(base) - 1)) + hexValue(base[Len(base)])

\* [(value >> 16) & 255, (value >> 8) & 255, value & 255]
channels(value) == <<(value \div 65536) % 256, (value \div 256) % 256, value % 256>>

\* /^#?[0-9A-Fa-f]{6}$/.test(color)
safe(color) ==
  LET digits == IF color # <<>> /\ Head(color) = "#" THEN Tail(color) ELSE color
  IN Len(digits) = 6 /\ \A i \in 1..6 : isHexDigit(digits[i])

\* color.replace("#", ""): the first # removed
replaceHash(color) ==
  IF \E i \in 1..Len(color) : color[i] = "#"
    THEN LET at == CHOOSE i \in 1..Len(color) :
                     color[i] = "#" /\ \A j \in 1..(i - 1) : color[j] # "#"
         IN SubSeq(color, 1, at - 1) \o SubSeq(color, at + 1, Len(color))
    ELSE color

hexToRgb(color) ==
  LET base == IF safe(color) THEN replaceHash(color) ELSE <<"f", "a", "c", "c", "1", "5">>
  IN channels(parseInt16(base))

\* the color a canvas reads in a string given to fillStyle: # followed by 3, 4,
\* 6 or 8 hexadecimal digits (an alpha digit is not kept here); any other text
\* over the characters used here is no CSS color
parseCssColor(text) ==
  LET digits == IF text # <<>> THEN Tail(text) ELSE <<>>
      hex == text # <<>> /\ Head(text) = "#" /\ \A i \in 1..Len(digits) : isHexDigit(digits[i])
  IN IF hex /\ Len(digits) \in {6, 8}
       THEN [valid |-> TRUE, rgb |-> channels(parseInt16(SubSeq(digits, 1, 6)))]
     ELSE IF hex /\ Len(digits) \in {3, 4}
       THEN [valid |-> TRUE,
             rgb |-> <<17 * hexValue(digits[1]), 17 * hexValue(digits[2]),
                       17 * hexValue(digits[3])>>]
     ELSE [valid |-> FALSE, rgb |-> <<0, 0, 0>>]

\* ctx.fillStyle = text: a text that is no color is ignored and the style the
\* context had is kept
setFillStyle(current, text) ==
  IF parseCssColor(text).valid THEN parseCssColor(text).rgb ELSE current

\* the fill style fillStageBackground paints the stage with, current being the
\* style the context had
fillStageBackground(current, prefs) ==
  LET fallback == <<"#", "0", "f", "1", "7", "2", "a">>
      background == IF trim(prefs.backgroundColor) # <<>>
                      THEN trim(prefs.backgroundColor) ELSE fallback
  IN setFillStyle(current, background)

\* ------------------------------------------------------------------ state
VARIABLES
  \* props and runtime of the component (fixed during a behaviour)
  article,            \* TRUE iff an article is loaded
  nMatches,           \* matches.length
  phases,             \* stagePreferences.phases
  timeline,           \* the timeline prop
  ctxOk,              \* canvas.getContext("2d") returns a context
  capture,            \* "ok" | "noMediaRecorder" | "noCaptureStream"
  preferences,        \* stagePreferences
  \* refs
  mounted,            \* canvasRef.current is set (component mounted)
  animationRef, recorderRef, recordingAbortRef, recordingGateRef, chunksRef,
  \* React state
  activeIndex, phaseLabel, isPlaying, isRecording, error, hasExport, downloadUrl,
  \* browser objects
  liveUrls,           \* object URLs created and not revoked
  recState,           \* MediaRecorder.state of each recorder
  stopQueued,         \* the recorder's dataavailable/stop task is queued
  gateResolved,       \* the deferred created with each recorder is resolved
  gateWaiters,        \* continuations awaiting each deferred, in order
  raf,                \* animation-frame callbacks scheduled, per run
  mq,                 \* the microtask queue
  \* async invocations (handler + the startAnimation call it makes)
  kind, pc, caller, hasCtrl, cancelled, frameId, cancelCallbacks, idx, pos,
  currentState,       \* the FrameState of each run (currentState of startAnimation)
  startState,         \* the FrameState captured when the run's pending phase began
  \* observation of the last step
  drawLog,            \* drawMatchFrame calls made by runs in the last step
  lastFinal,          \* the session finalized (onstop) in the last step, if any
  lastExit,           \* the run that left its match loop in the last step, if any
  \* history
  lastRequest,        \* the Play or Export handler called in the last step, if any
  pausedMid,          \* the last request was a Pause that cancelled a run inside a phase
  started,            \* phases each run has executed so far in its current match
  visited,            \* match indexes each run has entered, in order
  executed,           \* animateTo calls each run has executed: match, phase, duration
  preFrames,          \* frames each run drew in its current match before any phase
  abortAsked,         \* stop(abort=true) was called on the session, not yet finalized
  \* a call of collectMatches
  paragraphs,         \* article.paragraphs
  rawKeywords,        \* the raw keyword text
  matches,            \* the list collectMatches returned
  searched,           \* collectMatches has been called
  \* a call of buildTimeline
  items,              \* the list buildTimeline returned
  multiplier,         \* its local multiplier
  built,              \* buildTimeline has been called
  \* a call of the text layout of drawMatchFrame
  maxWidth,           \* the width of the text area
  drawn,              \* the position in matches of the match drawn
  snippet,            \* before, target and after
  lines,              \* the lines wrapTokens returned
  laid,               \* the layout has been made
  \* a call of the color handling of drawMatchFrame
  highlightColor,     \* the highlightColor prop
  fillStyle,          \* ctx.fillStyle, as red, green and blue
  rgb,                \* the list hexToRgb returned
  painted,            \* the colors have been computed
  \* the page (Home)
  appState,           \* its state (an AppState)
  pending             \* the handleSearch call awaiting fetchArticleByTopic, if any

envVars == <<article, nMatches, phases, timeline, ctxOk, capture, preferences>>

searchVars == <<paragraphs, rawKeywords, matches, searched>>

timelineVars == <<items, multiplier, built>>

\* the results of the functions called on their own, the search apart
layoutVars == <<maxWidth, drawn, snippet, lines, laid>>

colorVars == <<highlightColor, fillStyle, rgb, painted>>

pageVars == <<appState, pending>>

callVars == <<timelineVars, layoutVars, colorVars, pageVars>>

vars == <<article, nMatches, phases, timeline, ctxOk, capture, preferences,
          mounted, animationRef, recorderRef, recordingAbortRef, recordingGateRef, chunksRef,
          activeIndex, phaseLabel, isPlaying, isRecording, error, hasExport, downloadUrl,
          liveUrls, recState, stopQueued, gateResolved, gateWaiters, raf, mq,
          kind, pc, caller, hasCtrl, cancelled, frameId, cancelCallbacks, idx, pos,
          currentState, startState,
          drawLog, lastFinal, lastExit, lastRequest, pausedMid, started, visited, executed,
          preFrames,
          abortAsked, paragraphs, rawKeywords, matches, searched,
          items, multiplier, built, maxWidth, drawn, snippet, lines, laid,
          highlightColor, fillStyle, rgb, painted, appState, pending>>

\* the component's own state
stageVars == <<mounted, animationRef, recorderRef, recordingAbortRef, recordingGateRef,
               chunksRef, activeIndex, phaseLabel, isPlaying, isRecording, error,
               hasExport, downloadUrl, liveUrls, recState, stopQueued, gateResolved,
               gateWaiters, raf, mq, kind, pc, caller, hasCtrl, cancelled, frameId,
               cancelCallbacks, idx, pos, currentState, startState, drawLog, lastFinal,
               lastExit, lastRequest, pausedMid, started, visited, executed, preFrames,
               abortAsked>>

\* the mutable state as one record, so that the code's sequential statements
\* compose as function applications
St ==
  [mounted |-> mounted, animationRef |-> animationRef, recorderRef |-> recorderRef,
   recordingAbortRef |-> recordingAbortRef, recordingGateRef |-> recordingGateRef,
   chunksRef |-> chunksRef,
   activeIndex |-> activeIndex, phaseLabel |-> phaseLabel, isPlaying |-> isPlaying,
   isRecording |-> isRecording, error |-> error, hasExport |-> hasExport,
   downloadUrl |-> downloadUrl,
   liveUrls |-> liveUrls, recState |-> recState, stopQueued |-> stopQueued,
   gateResolved |-> gateResolved, gateWaiters |-> gateWaiters, raf |-> raf, mq |-> mq,
   kind |-> kind, pc |-> pc, caller |-> caller, hasCtrl |-> hasCtrl,
   cancelled |-> cancelled, frameId |-> frameId, cancelCallbacks |-> cancelCallbacks,
   idx |-> idx, pos |-> pos, currentState |-> currentState, startState |-> startState,
   drawLog |-> <<>>, lastFinal |-> NoFinal, lastExit |-> NoExit, lastRequest |-> "none",
   pausedMid |-> pausedMid,
   started |-> started, visited |-> visited, executed |-> executed, preFrames |-> preFrames,
   abortAsked |-> abortAsked]

\* recorders whose object nothing references any more
FreeRecorders(s) ==
  {r \in Recorders : /\ s.recState[r] = "inactive" /\ ~s.stopQueued[r]
                     /\ s.recorderRef # r /\ s.recordingGateRef # r
                     /\ s.gateWaiters[r] = <<>>}

\* garbage collection: an unreferenced recorder and its deferred leave no trace
collect(s) ==
  [s EXCEPT !.gateResolved = [r \in Recorders |->
                                IF r \in FreeRecorders(s) THEN FALSE ELSE @[r]],
            !.abortAsked = [r \in Recorders |->
                              IF r \in FreeRecorders(s) THEN FALSE ELSE @[r]]]

Assign(n) ==
  /\ mounted' = n.mounted
  /\ animationRef' = n.animationRef
  /\ recorderRef' = n.recorderRef
  /\ recordingAbortRef' = n.recordingAbortRef
  /\ recordingGateRef' = n.recordingGateRef
  /\ chunksRef' = n.chunksRef
  /\ activeIndex' = n.activeIndex
  /\ phaseLabel' = n.phaseLabel
  /\ isPlaying' = n.isPlaying
  /\ isRecording' = n.isRecording
  /\ error' = n.error
  /\ hasExport' = n.hasExport
  /\ downloadUrl' = n.downloadUrl
  /\ liveUrls' = n.liveUrls
  /\ recState' = n.recState
  /\ stopQueued' = n.stopQueued
  /\ gateResolved' = n.gateResolved
  /\ gateWaiters' = n.gateWaiters
  /\ raf' = n.raf
  /\ mq' = n.mq
  /\ kind' = n.kind
  /\ pc' = n.pc
  /\ caller' = n.caller
  /\ hasCtrl' = n.hasCtrl
  /\ cancelled' = n.cancelled
  /\ frameId' = n.frameId
  /\ cancelCallbacks' = n.cancelCallbacks
  /\ idx' = n.idx
  /\ pos' = n.pos
  /\ currentState' = n.currentState
  /\ startState' = n.startState
  /\ lastExit' = n.lastExit
  /\ visited' = n.visited
  /\ executed' = n.executed
  /\ preFrames' = n.preFrames
  /\ drawLog' = n.drawLog
  /\ lastFinal' = n.lastFinal
  /\ lastRequest' = n.lastRequest
  /\ pausedMid' = n.pausedMid
  /\ started' = n.started
  /\ abortAsked' = n.abortAsked
  /\ UNCHANGED envVars
  /\ UNCHANGED searchVars
  /\ UNCHANGED callVars

\* the step whose synchronous segment ends in state m
Commit(m) == Assign(collect(m))

\* ---------------------------------------------------------------- helpers
Min(S) == CHOOSE x \in S : \A y \in S : x <= y

RECURSIVE Without(_, _)
\* Array.prototype.filter((fn) => fn !== callback)
Without(seq, x) ==
  IF seq = <<>> THEN <<>>
  ELSE IF Head(seq) = x THEN Without(Tail(seq), x)
  ELSE <<Head(seq)>> \o Without(Tail(seq), x)

\* the continuation of task t, at position p, becomes a microtask
Enqueue(s, t, p) == [s EXCEPT !.pc[t] = p, !.mq = Append(@, t)]

\* an async invocation has returned and nothing awaits it any more
EndTask(s, t) ==
  [s EXCEPT !.kind[t] = "free", !.pc[t] = "idle", !.caller[t] = "none",
            !.hasCtrl[t] = FALSE, !.cancelled[t] = FALSE, !.frameId[t] = NoFrame,
            !.cancelCallbacks[t] = <<>>, !.idx[t] = 0, !.pos[t] = 0, !.started[t] = <<>>,
            !.currentState[t] = Baseline, !.startState[t] = Baseline,
            !.visited[t] = <<>>, !.executed[t] = <<>>, !.preFrames[t] = 0]

FreeTasks == {t \in Tasks : kind[t] = "free"}

\* a run is short when it awaits at most one phase: the staged list has at most
\* one match and at most one phase of the chain is enabled.  Short runs are
\* explored with MaxTasks invocations alive, longer ones with one fewer.
ShortRun ==
  /\ nMatches <= 1
  /\ Cardinality({p \in DOMAIN phases : phases[p]}) <= 1

\* a request can be taken: an invocation slot is left
TaskSlot ==
  Cardinality(Tasks \ FreeTasks) < (IF ShortRun THEN MaxTasks ELSE MaxTasks - 1)

\* a Play or Export request can be taken
RunSlot ==
  Cardinality({t \in Tasks : kind[t] \in {"play", "export"}})
    < (IF ShortRun THEN MaxRuns ELSE MaxRuns - 1)

\* drawMatchFrame called by run t (the draw itself is a pure canvas effect)
drawMatchFrame(s, t, i, phase) ==
  [s EXCEPT !.drawLog = Append(@, [run |-> t, index |-> i, phase |-> phase,
                                   cancelled |-> s.cancelled[t],
                                   state |-> s.currentState[t],
                                   current |-> s.idx[t],
                                   pre |-> s.started[t] = <<>>]),
            !.preFrames[t] = IF s.started[t] = <<>> THEN @ + 1 ELSE @]

\* ---------------------------------------------------- download artifact
\* variant: the previous URL is not revoked
updateDownloadUrl_noRevoke(s, value) ==
  [s EXCEPT !.downloadUrl = value, !.hasExport = (value # 0)]

updateDownloadUrl(s, value) ==
  [s EXCEPT !.liveUrls = IF s.downloadUrl # 0 THEN @ \ {s.downloadUrl} ELSE @,
            !.downloadUrl = value,
            !.hasExport = (value # 0)]

\* URL.createObjectURL: an identifier no live URL has
createObjectURL(s) ==
  IF Urls \ s.liveUrls = {} THEN MaxUrls ELSE Min(Urls \ s.liveUrls)

\* ------------------------------------------------------------- deferred
\* deferred.resolve(): the awaiting continuations become microtasks, in order
resolveGate(s, g) ==
  IF s.gateResolved[g] THEN s
  ELSE [s EXCEPT !.gateResolved[g] = TRUE,
                 !.mq = @ \o s.gateWaiters[g],
                 !.gateWaiters[g] = <<>>]

\* await gate.promise
awaitGate(s, t, g) ==
  IF s.gateResolved[g] THEN Enqueue(s, t, "sr_gate")
  ELSE [s EXCEPT !.pc[t] = "sr_gate", !.gateWaiters[g] = Append(@, t)]

\* ---------------------------------------------------------- controller
\* variant: the promise of a phase is never resolved
finish_never(s, t, ik) == s

\* finish() of the promise of phase ik of run t; settled is "the run no
\* longer waits for that promise"
finish(s, t, ik) ==
  IF s.pc[t] = "anim_wait" /\ <<s.idx[t], s.pos[t]>> = ik
    THEN Enqueue([s EXCEPT !.cancelCallbacks[t] = Without(@, ik),
                           !.frameId[t] = NoFrame], t, "anim_resume")
    ELSE s

\* variant: the cancel callbacks are dropped without being called
forEachCallback_skips(s, t, cbs) == s

RECURSIVE forEachCallback(_, _, _)
\* cancelCallbacks.forEach((callback) => callback())
forEachCallback(s, t, cbs) ==
  IF cbs = <<>> THEN s
  ELSE forEachCallback(finish(s, t, Head(cbs)), t, Tail(cbs))

cancelAnimationFrame(s, t) ==
  IF s.frameId[t] # NoFrame THEN [s EXCEPT !.raf[t] = @ \ {s.frameId[t]}] ELSE s

\* cancelled = true; cancelAnimationFrame; run and drop the cancel callbacks
cancelController(s, c) ==
  LET s1 == [s EXCEPT !.cancelled[c] = TRUE]
      s2 == cancelAnimationFrame(s1, c)
      s3 == forEachCallback(s2, c, s2.cancelCallbacks[c])
  IN [s3 EXCEPT !.cancelCallbacks[c] = <<>>]

createController(s, t) ==
  LET existing == s.animationRef
      s1 == IF existing # 0 THEN cancelController(s, existing) ELSE s
  IN [s1 EXCEPT !.hasCtrl[t] = TRUE, !.cancelled[t] = FALSE, !.frameId[t] = NoFrame,
                !.cancelCallbacks[t] = <<>>, !.animationRef = t]

\* ------------------------------------------------------------ recording
\* tail of stopRecording, after the gate; then the caller's await resumes
stopRecordingTail(s, t) ==
  LET s1 == [s EXCEPT !.recorderRef = 0, !.recordingGateRef = 0, !.chunksRef = <<>>]
  IN IF s1.caller[t] = "end" THEN Enqueue(s1, t, "end_resume")
     ELSE Enqueue(s1, t, "sp_resume")

stopRecording(s, t, abort, who) ==
  LET recorder == s.recorderRef
      live == recorder # 0 /\ (s.recState[recorder] # "inactive" \/ s.stopQueued[recorder])
      s1 == [s EXCEPT !.recordingAbortRef = abort, !.caller[t] = who,
                      !.abortAsked = IF abort /\ live
                                       THEN [@ EXCEPT ![recorder] = TRUE] ELSE @]
      s2 == IF recorder # 0 /\ s1.recState[recorder] # "inactive"
              THEN [s1 EXCEPT !.recState[recorder] = "inactive",
                              !.stopQueued[recorder] = TRUE]
              ELSE s1
      gate == s2.recordingGateRef
  IN IF gate # 0 THEN awaitGate(s2, t, gate) ELSE stopRecordingTail(s2, t)

stopPlayback(s, t, forceRecordingAbort, who) ==
  LET controller == s.animationRef
      s1 == IF controller # 0
              THEN [cancelController(s, controller) EXCEPT !.animationRef = 0]
              ELSE s
      s2 == [s1 EXCEPT !.isPlaying = FALSE, !.phaseLabel = "idle"]
  IN IF forceRecordingAbort
       THEN stopRecording(s2, t, TRUE, who)
       ELSE Enqueue([s2 EXCEPT !.caller[t] = who], t, "h_resume")

StartOutcomes == {"ok", "ctorThrows", "startThrows"}

\* variant: the started recorder is not stored in recorderRef
startRecording_unreferenced(s, t, outcome) ==
  IF ~s.mounted THEN Enqueue([s EXCEPT !.error = "canvasUnavailable"], t, "rec_fail")
  ELSE IF capture # "ok" \/ outcome # "ok" \/ FreeRecorders(s) = {}
    THEN Enqueue([s EXCEPT !.error = "unableToStart"], t, "rec_fail")
  ELSE
    LET recorder == Min(FreeRecorders(s))
    IN Enqueue([s EXCEPT !.chunksRef = <<>>, !.recordingAbortRef = FALSE,
                         !.recordingGateRef = recorder,
                         !.gateResolved[recorder] = FALSE,
                         !.recState[recorder] = "recording",
                         !.isRecording = TRUE], t, "rec_ok")

\* startRecording; outcome is what the MediaRecorder constructor and start() do.
\* Returns the state with the result left in pc ("rec_ok" / "rec_fail").
startRecording(s, t, outcome) ==
  IF ~s.mounted THEN Enqueue([s EXCEPT !.error = "canvasUnavailable"], t, "rec_fail")
  ELSE IF capture = "noMediaRecorder"
    THEN Enqueue([s EXCEPT !.error = "noMediaRecorder"], t, "rec_fail")
  ELSE IF capture = "noCaptureStream"
    THEN Enqueue([s EXCEPT !.error = "noCaptureStream"], t, "rec_fail")
  ELSE IF outcome = "ctorThrows" \/ FreeRecorders(s) = {}
    THEN Enqueue([s EXCEPT !.error = "unableToStart"], t, "rec_fail")
  ELSE
    LET recorder == Min(FreeRecorders(s))
        s1 == [s EXCEPT !.chunksRef = <<>>, !.recordingAbortRef = FALSE,
                        !.recordingGateRef = recorder,
                        !.gateResolved[recorder] = FALSE]
    IN IF outcome = "startThrows"
         THEN Enqueue([s1 EXCEPT !.error = "unableToStart"], t, "rec_fail")
         ELSE Enqueue([s1 EXCEPT !.recState[recorder] = "recording",
                                 !.recorderRef = recorder,
                                 !.isRecording = TRUE], t, "rec_ok")

\* ------------------------------------------------------------ scheduler
\* variant: past the end of the timeline the last item is used
schedule_lastItem(i) ==
  IF i + 1 <= Len(timeline) THEN timeline[i + 1]
  ELSE IF timeline # <<>> THEN timeline[Len(timeline)] ELSE DEFAULT_DURATIONS

\* timeline[index] ?? DEFAULT_DURATIONS (index is 0-based in the code)
schedule(i) == IF i + 1 <= Len(timeline) THEN timeline[i + 1] ELSE DEFAULT_DURATIONS

\* the duration startAnimation passes to animateTo for a phase of match i
phaseDuration(i, phase) ==
  CASE phase = "intro" -> INTRO_DURATION
    [] phase = "pan" -> schedule(i).panMs
    [] phase = "zoom" -> schedule(i).zoomMs
    [] phase = "highlight" -> schedule(i).highlightMs
    [] phase = "hold" -> schedule(i).holdMs
    [] phase = "transition" -> schedule(i).transitionMs

\* variant: a phase is awaited whenever its toggle is on
phaseGuard_toggleOnly(i, phase) == phases[phase]

\* the condition under which startAnimation awaits a phase of match i
phaseGuard(i, phase) ==
  CASE phase = "intro" -> phases.intro
    [] phase = "pan" -> phases.pan /\ schedule(i).panMs > 0
    [] phase = "zoom" -> phases.zoom /\ schedule(i).zoomMs > 0
    [] phase = "highlight" -> phases.highlight /\ schedule(i).highlightMs > 0
    [] phase = "hold" -> phases.hold /\ schedule(i).holdMs > 0
    [] phase = "transition" -> phases.transition /\ schedule(i).transitionMs > 0

\* the target startAnimation passes to animateTo for each phase: the fields it
\* defines, and their values (scale and highlightAlpha in hundredths)
phaseTarget(phase) ==
  CASE phase = "intro" ->
         [fields |-> {"scale", "highlightAlpha"}, scale |-> 100, offsetY |-> 0, highlightAlpha |-> 0]
    [] phase = "pan" ->
         [fields |-> {"offsetY"}, scale |-> 0, offsetY |-> -60, highlightAlpha |-> 0]
    [] phase = "zoom" ->
         [fields |-> {"scale"}, scale |-> 118, offsetY |-> 0, highlightAlpha |-> 0]
    [] phase = "highlight" ->
         [fields |-> {"highlightAlpha"}, scale |-> 0, offsetY |-> 0, highlightAlpha |-> 100]
    [] phase = "hold" ->
         [fields |-> {}, scale |-> 0, offsetY |-> 0, highlightAlpha |-> 0]
    [] phase = "transition" ->
         [fields |-> {"highlightAlpha", "scale", "offsetY"},
          scale |-> 100, offsetY |-> 0, highlightAlpha |-> 0]

\* easeInOut(t), t and the result in halves (t = -1/2, 0, 1/2, 1)
easeInOut(h) == IF h < 1 THEN h * h * h ELSE 2 - (2 - h) * (2 - h) * (2 - h)

\* lerp(from, to, t), t in halves
lerp(from, to, e) == from + ((to - from) * e) \div 2

\* the zero-duration branch of animateTo: target.x ?? currentState.x
snap(state, target) ==
  [scale |-> IF "scale" \in target.fields THEN target.scale ELSE state.scale,
   offsetY |-> IF "offsetY" \in target.fields THEN target.offsetY ELSE state.offsetY,
   highlightAlpha |-> IF "highlightAlpha" \in target.fields
                        THEN target.highlightAlpha ELSE state.highlightAlpha]

\* variant: a field the target leaves out goes back to its baseline value
interpolate_resetsOthers(start, target, e) ==
  [scale |-> IF "scale" \in target.fields THEN lerp(start.scale, target.scale, e)
             ELSE Baseline.scale,
   offsetY |-> IF "offsetY" \in target.fields THEN lerp(start.offsetY, target.offsetY, e)
               ELSE Baseline.offsetY,
   highlightAlpha |-> IF "highlightAlpha" \in target.fields
                        THEN lerp(start.highlightAlpha, target.highlightAlpha, e)
                        ELSE Baseline.highlightAlpha]

\* the frame state step computes at eased time e from the phase's start state
interpolate(start, target, e) ==
  [scale |-> IF "scale" \in target.fields THEN lerp(start.scale, target.scale, e)
             ELSE start.scale,
   offsetY |-> IF "offsetY" \in target.fields THEN lerp(start.offsetY, target.offsetY, e)
               ELSE start.offsetY,
   highlightAlpha |-> IF "highlightAlpha" \in target.fields
                        THEN lerp(start.highlightAlpha, target.highlightAlpha, e)
                        ELSE start.highlightAlpha]

\* record of a run is the argument of startAnimation: Export records
record(s, t) == s.kind[t] = "export"

\* end of startAnimation after the last await
teardown(s, t) ==
  EndTask([s EXCEPT !.isPlaying = FALSE, !.phaseLabel = "idle",
                    !.cancelCallbacks[t] = <<>>, !.frameId[t] = NoFrame,
                    !.animationRef = 0], t)

\* after the match loop: stop the recording (keeping the artifact), tear down
runEnd(s, t) ==
  IF record(s, t) THEN stopRecording(s, t, FALSE, "end") ELSE teardown(s, t)

\* animateTo up to its return or its await; the caller's position is (i, k)
animateTo(s, t, i, k) ==
  IF s.cancelled[t] THEN Enqueue(s, t, "phase_resume")
  ELSE
    LET duration == IF phaseDuration(i, PhaseChain[k]) < 0 THEN 0
                    ELSE phaseDuration(i, PhaseChain[k])
        s1 == [s EXCEPT !.phaseLabel = PhaseChain[k], !.started[t] = Append(@, PhaseChain[k]),
                        !.executed[t] = Append(@, [index |-> i, phase |-> PhaseChain[k],
                                                   ms |-> duration])]
    IN IF duration = 0
         THEN LET s0 == [s1 EXCEPT !.currentState[t] = snap(@, phaseTarget(PhaseChain[k]))]
              IN Enqueue(drawMatchFrame(s0, t, i, PhaseChain[k]), t, "phase_resume")
         ELSE
           LET s2 == [s1 EXCEPT !.pc[t] = "anim_wait",
                                !.startState[t] = s1.currentState[t],
                                !.cancelCallbacks[t] = Append(@, <<i, k>>)]
           IN IF s2.cancelled[t] THEN finish(s2, t, <<i, k>>)
              ELSE [s2 EXCEPT !.frameId[t] = <<i, k>>, !.raf[t] = @ \cup {<<i, k>>}]

\* variant: the frame state is carried over from the previous match
resetState_keeps(state) == state

\* currentState = { scale: 0.94, offsetY: 0, highlightAlpha: 0 } at each match
resetState(state) == Baseline

\* variant: the loop does not look at the cancellation flag
loopExit_ignoresCancel(s, t, i) == i >= nMatches

\* the match loop leaves at its top when the list is exhausted or on cancel
loopExit(s, t, i) == i >= nMatches \/ s.cancelled[t]

\* variant: the loop advances by two
nextIndex_skips(i) == i + 2

\* index += 1 of the match loop
nextIndex(i) == i + 1

RECURSIVE runFrom(_, _, _, _)
\* startAnimation from the k-th guard of the phase chain of match i, up to the
\* next await (k past the chain: the loop increment and the top of the for loop)
runFrom(s, t, i, k) ==
  IF k > Len(PhaseChain)
    THEN IF loopExit(s, t, nextIndex(i))
           THEN runEnd([s EXCEPT !.lastExit = [run |-> t, cancelled |-> s.cancelled[t],
                                               visited |-> s.visited[t],
                                               executed |-> s.executed[t]]], t)
         ELSE LET s1 == [s EXCEPT !.activeIndex = nextIndex(i), !.idx[t] = nextIndex(i),
                                  !.currentState[t] = resetState(@),
                                  !.started[t] = <<>>, !.preFrames[t] = 0,
                                  !.visited[t] = Append(@, nextIndex(i))]
                  s2 == drawMatchFrame(s1, t, nextIndex(i),
                                       IF phases.intro THEN "intro" ELSE "idle")
              IN runFrom(s2, t, nextIndex(i), 1)
    ELSE IF phaseGuard(i, PhaseChain[k])
           THEN animateTo([s EXCEPT !.pos[t] = k], t, i, k)
           ELSE runFrom(s, t, i, k + 1)

\* startAnimation from createController on
startRun(s, t) ==
  LET s1 == createController(s, t)
      s2 == [s1 EXCEPT !.isPlaying = TRUE, !.currentState[t] = Baseline]
  IN runFrom(s2, t, -1, Len(PhaseChain) + 1)

\* variant: the article and the match list are not looked at
startAnimation_noInputCheck(s, t, outcome) ==
  IF ~(s.mounted /\ ctxOk) THEN EndTask([s EXCEPT !.error = "noContext"], t)
  ELSE LET s1 == [s EXCEPT !.error = "none"]
       IN IF record(s1, t) THEN startRecording(s1, t, outcome) ELSE startRun(s1, t)

\* variant: the drawing context is not looked at
startAnimation_noContextCheck(s, t, outcome) ==
  IF ~article \/ nMatches = 0 THEN EndTask([s EXCEPT !.error = "noMatches"], t)
  ELSE LET s1 == [s EXCEPT !.error = "none"]
       IN IF record(s1, t) THEN startRecording(s1, t, outcome) ELSE startRun(s1, t)

\* startAnimation(record) up to its first await
startAnimation(s, t, outcome) ==
  IF ~article \/ nMatches = 0 THEN EndTask([s EXCEPT !.error = "noMatches"], t)
  ELSE IF ~(s.mounted /\ ctxOk) THEN EndTask([s EXCEPT !.error = "noContext"], t)
  ELSE LET s1 == [s EXCEPT !.error = "none"]
       IN IF record(s1, t) THEN startRecording(s1, t, outcome) ELSE startRun(s1, t)

\* ------------------------------------------------------------------ init
AllOn ==
  [intro |-> TRUE, pan |-> TRUE, zoom |-> TRUE, highlight |-> TRUE, hold |-> TRUE,
   transition |-> TRUE]

\* highlight cuts only: no intro, no hold; pan and zoom drop out in centered mode
CutsOnly == [AllOn EXCEPT !.intro = FALSE, !.hold = FALSE]

NoneOn ==
  [intro |-> FALSE, pan |-> FALSE, zoom |-> FALSE, highlight |-> FALSE, hold |-> FALSE,
   transition |-> FALSE]

HighlightOnly == [NoneOn EXCEPT !.highlight = TRUE]

\* speedMultiplier 1
SpeedOne == Finite(100)

\* the fields of DEFAULT_STAGE_PREFERENCES the functions modelled read
DEFAULT_STAGE_PREFERENCES ==
  [phases |-> AllOn, playbackMode |-> "cinematic", speedMultiplier |-> SpeedOne,
   backgroundColor |-> <<"#", "0", "f", "1", "7", "2", "a">>, truncateText |-> TRUE]

\* intro, pan and transition
IntroPanOut == [NoneOn EXCEPT !.intro = TRUE, !.pan = TRUE, !.transition = TRUE]

Setup(a, n, p, m, c, k) ==
  [article |-> a, nMatches |-> n, phases |-> p, mode |-> m, ctxOk |-> c, capture |-> k,
   speed |-> SpeedOne, truncateText |-> TRUE,
   backgroundColor |-> DEFAULT_STAGE_PREFERENCES.backgroundColor]

\* the same props with speedMultiplier value
AtSpeed(c, value) == [c EXCEPT !.speed = value]

\* the stagePreferences prop of a setup
PreferencesOf(c) ==
  [DEFAULT_STAGE_PREFERENCES EXCEPT !.phases = c.phases, !.playbackMode = c.mode,
                                    !.speedMultiplier = c.speed,
                                    !.truncateText = c.truncateText,
                                    !.backgroundColor = c.backgroundColor]

\* the matches prop of a setup: n matches of one keyword in the first paragraph
StagedMatches(n) ==
  [i \in 1..n |-> [keyword |-> <<"a">>, paragraphIndex |-> 0, start |-> i - 1, end |-> i]]

\* the props and runtimes explored: the full phase chain on one match, the
\* centered cut on MaxMatches matches, no phase at all, one phase on one match,
\* a pan that centered mode gives no duration at speed 4, and the degenerate inputs
Setups ==
  {Setup(TRUE, 1, AllOn, "cinematic", TRUE, "ok"),
   Setup(TRUE, MaxMatches, CutsOnly, "centered", TRUE, "ok"),
   Setup(TRUE, MaxMatches, NoneOn, "cinematic", TRUE, "ok"),
   Setup(TRUE, 1, HighlightOnly, "centered", TRUE, "ok"),
   AtSpeed(Setup(TRUE, 1, IntroPanOut, "centered", TRUE, "ok"), Finite(400)),
   Setup(FALSE, 0, AllOn, "cinematic", TRUE, "ok"),
   Setup(FALSE, 1, HighlightOnly, "centered", TRUE, "ok"),
   Setup(TRUE, 0, AllOn, "cinematic", TRUE, "ok"),
   Setup(TRUE, 1, HighlightOnly, "centered", FALSE, "ok"),
   Setup(TRUE, 1, HighlightOnly, "centered", TRUE, "noMediaRecorder"),
   Setup(TRUE, 1, HighlightOnly, "centered", TRUE, "noCaptureStream")}

\* the component right after mounting with the props and runtime of setup c
\* and the timeline prop given
InitStage(c, tl) ==
  /\ article = c.article
  /\ nMatches = c.nMatches
  /\ phases = c.phases
  /\ preferences = PreferencesOf(c)
  /\ timeline = tl
  /\ ctxOk = c.ctxOk
  /\ capture = c.capture
  /\ mounted = TRUE
  /\ animationRef = 0
  /\ recorderRef = 0
  /\ recordingAbortRef = FALSE
  /\ recordingGateRef = 0
  /\ chunksRef = <<>>
  /\ activeIndex = -1
  /\ phaseLabel = "idle"
  /\ isPlaying = FALSE
  /\ isRecording = FALSE
  /\ error = "none"
  /\ hasExport = FALSE
  /\ downloadUrl = 0
  /\ liveUrls = {}
  /\ recState = [r \in Recorders |-> "inactive"]
  /\ stopQueued = [r \in Recorders |-> FALSE]
  /\ gateResolved = [r \in Recorders |-> FALSE]
  /\ gateWaiters = [r \in Recorders |-> <<>>]
  /\ raf = [t \in Tasks |-> {}]
  /\ mq = <<>>
  /\ kind = [t \in Tasks |-> "free"]
  /\ pc = [t \in Tasks |-> "idle"]
  /\ caller = [t \in Tasks |-> "none"]
  /\ hasCtrl = [t \in Tasks |-> FALSE]
  /\ cancelled = [t \in Tasks |-> FALSE]
  /\ frameId = [t \in Tasks |-> NoFrame]
  /\ cancelCallbacks = [t \in Tasks |-> <<>>]
  /\ idx = [t \in Tasks |-> 0]
  /\ pos = [t \in Tasks |-> 0]
  /\ currentState = [t \in Tasks |-> Baseline]
  /\ startState = [t \in Tasks |-> Baseline]
  /\ lastExit = NoExit
  /\ visited = [t \in Tasks |-> <<>>]
  /\ executed = [t \in Tasks |-> <<>>]
  /\ preFrames = [t \in Tasks |-> 0]
  /\ drawLog = <<>>
  /\ lastFinal = NoFinal
  /\ lastRequest = "none"
  /\ pausedMid = FALSE
  /\ started = [t \in Tasks |-> <<>>]
  /\ abortAsked = [r \in Recorders |-> FALSE]

\* the stage as the page mounts it: the timeline prop is buildTimeline of the
\* matches prop
InitWith(c) == InitStage(c, buildTimeline(StagedMatches(c.nMatches), PreferencesOf(c)))

\* no search has been made
NoSearch ==
  /\ paragraphs = <<>>
  /\ rawKeywords = <<>>
  /\ matches = <<>>
  /\ searched = FALSE

\* buildTimeline has not been called on its own
NoBuild ==
  /\ items = <<>>
  /\ multiplier = 0
  /\ built = FALSE

NoSnippet == [before |-> <<>>, target |-> <<>>, after |-> <<>>]

\* no text has been laid out
NoLayout ==
  /\ maxWidth = 0
  /\ drawn = 0
  /\ snippet = NoSnippet
  /\ lines = <<>>
  /\ laid = FALSE

\* the highlight color the settings form starts with
DEFAULT_HIGHLIGHT_COLOR == <<"#", "f", "a", "c", "c", "1", "5">>

\* the fill style of a new canvas context: black
InitialFillStyle == <<0, 0, 0>>

\* no color has been computed
NoPaint ==
  /\ highlightColor = DEFAULT_HIGHLIGHT_COLOR
  /\ fillStyle = InitialFillStyle
  /\ rgb = <<0, 0, 0>>
  /\ painted = FALSE

\* none of the functions has been called on its own
\* the state the page starts in; a value that may be null is a list of at most
\* one element
INITIAL_STATE ==
  [status |-> "idle", article |-> <<>>, matches |-> <<>>, timeline |-> <<>>,
   payload |-> <<>>]

\* no handleSearch call is awaiting a fetch
NoRequest == [awaiting |-> FALSE, payload |-> <<>>, candidateTerms |-> <<>>, term |-> 0]

\* the page has made no search
NoPage ==
  /\ appState = INITIAL_STATE
  /\ pending = NoRequest

NoCalls == NoBuild /\ NoLayout /\ NoPaint /\ NoPage

Init == NoSearch /\ NoCalls /\ \E c \in Setups : InitWith(c)

\* ------------------------------------------------- macrotasks: requests
\* a macrotask starts only when the microtask queue is empty
Idle == mq = <<>>

\* the disabled attributes of the three buttons; a disabled button delivers no
\* click, and the component is rendered from the state the handlers read
playDisabled == isPlaying \/ nMatches = 0

pauseDisabled == ~isPlaying /\ ~isRecording

exportDisabled == nMatches = 0 \/ isRecording \/ isPlaying

\* variant: handlePlay does not look at isPlaying
playReturns_never == FALSE

\* if (isPlaying) return
playReturns == isPlaying

\* variant: handleExport does not look at isRecording
exportReturns_never == FALSE

\* if (isRecording) return
exportReturns == isRecording

\* handlePlay called, up to "await stopPlayback(false)"
playRequested ==
  /\ Idle /\ mounted /\ (playReturns \/ (TaskSlot /\ RunSlot))
  /\ LET t == Min(FreeTasks)
         s0 == [St EXCEPT !.pausedMid = FALSE, !.lastRequest = "play"]
     IN IF playReturns THEN Commit(s0)
        ELSE Commit(stopPlayback([s0 EXCEPT !.kind[t] = "play"], t, FALSE, "handler"))

\* a click on the Play button
handlePlay == ~playDisabled /\ playRequested

\* handlePause up to the first await inside stopPlayback(true)
handlePause ==
  /\ Idle /\ mounted /\ ~pauseDisabled /\ TaskSlot
  /\ LET t == Min(FreeTasks)
         mid == animationRef # 0 /\ pc[animationRef] = "anim_wait"
     IN Commit(stopPlayback([St EXCEPT !.kind[t] = "pause", !.pausedMid = mid],
                            t, TRUE, "handler"))

\* handleExport called, up to the first await inside stopPlayback(true)
exportRequested ==
  /\ Idle /\ mounted /\ (exportReturns \/ (TaskSlot /\ RunSlot))
  /\ LET t == Min(FreeTasks)
         s0 == [St EXCEPT !.pausedMid = FALSE, !.lastRequest = "export"]
     IN IF exportReturns THEN Commit(s0)
        ELSE Commit(stopPlayback([s0 EXCEPT !.kind[t] = "export"], t, TRUE, "handler"))

\* a click on the Export button
handleExport == ~exportDisabled /\ exportRequested

\* the cleanup of the unmount effect: void stopPlayback(true); updateDownloadUrl(null)
unmount ==
  /\ Idle /\ mounted /\ TaskSlot
  /\ LET t == Min(FreeTasks)
         s1 == stopPlayback([St EXCEPT !.kind[t] = "unmount", !.pausedMid = FALSE,
                                       !.mounted = FALSE], t, TRUE, "unmount")
     IN Commit(updateDownloadUrl(s1, 0))

\* ------------------------------------------- macrotasks: frame callback
\* elapsed / duration of a frame callback, in halves.  startTime is read from
\* performance.now() inside a task, the timestamp is the time the frame began:
\* the first callback of a phase can carry a timestamp earlier than startTime.
\* Timestamps grow from one frame to the next, so the ratio is negative only
\* while no frame has moved the state away from the phase's start.
elapsedRatios(s, t) ==
  IF s.currentState[t] = s.startState[t] THEN {-1, 1, 2} ELSE {1, 2}

\* step(timestamp) of the promise of phase ik; ratio is elapsed / duration in
\* halves, and t = Math.min(1, ratio)
step(s, t, ik, ratio) ==
  LET s0 == [s EXCEPT !.raf[t] = @ \ {ik}]
      h == IF ratio < 2 THEN ratio ELSE 2
  IN IF s0.cancelled[t] THEN finish(s0, t, ik)
     ELSE LET eased == easeInOut(h)
              s00 == [s0 EXCEPT !.currentState[t] =
                                  interpolate(s0.startState[t], phaseTarget(PhaseChain[ik[2]]),
                                              eased)]
              s1 == drawMatchFrame(s00, t, ik[1], PhaseChain[ik[2]])
          IN IF h < 2
               THEN [s1 EXCEPT !.frameId[t] = ik, !.raf[t] = @ \cup {ik}]
               ELSE finish(s1, t, ik)

frameCallback(t) ==
  /\ Idle
  /\ \E ik \in raf[t], ratio \in elapsedRatios(St, t) : Commit(step(St, t, ik, ratio))

\* --------------------------------------------- macrotasks: the encoder
\* recorder.onstop
onstop(s, r) ==
  LET keep == ~s.recordingAbortRef /\ s.chunksRef # <<>>
      s1 == IF keep
              THEN LET url == createObjectURL(s)
                   IN updateDownloadUrl([s EXCEPT !.liveUrls = @ \cup {url}], url)
              ELSE s
      s2 == [s1 EXCEPT !.lastFinal = [rec |-> r, assembled |-> keep,
                                      aborted |-> s.abortAsked[r],
                                      abortRef |-> s.recordingAbortRef,
                                      chunks |-> Len(s.chunksRef),
                                      prevUrl |-> s.downloadUrl],
                       !.abortAsked[r] = FALSE]
  IN resolveGate([s2 EXCEPT !.isRecording = FALSE], r)

\* recorder.ondataavailable, with event.data.size > 0 or not
ondataavailable(s, r, hasData) ==
  IF hasData THEN [s EXCEPT !.chunksRef = Append(@, r)] ELSE s

\* the task queued by recorder.stop(): dataavailable, then stop
recorderStopTask(r) ==
  /\ Idle /\ stopQueued[r]
  /\ \E hasData \in BOOLEAN :
       Commit(onstop(ondataavailable([St EXCEPT !.stopQueued[r] = FALSE], r, hasData), r))

\* variant: the error handler does nothing
onerror_silent(s, r) == s

\* recorder.onerror
onerror(s, r) == resolveGate([s EXCEPT !.error = "recordingFailed"], r)

\* the encoder fails while recording: in one task the error event, then the
\* recorder goes inactive and fires dataavailable and stop
recorderErrorTask(r) ==
  /\ Idle /\ recState[r] = "recording"
  /\ \E hasData \in BOOLEAN :
       LET s1 == [onerror(St, r) EXCEPT !.recState[r] = "inactive"]
       IN Commit(onstop(ondataavailable(s1, r, hasData), r))

\* ------------------------------------------------------------ microtasks
Next1 == Head(mq)

Pop == [St EXCEPT !.mq = Tail(@)]

\* handlePlay / handlePause / handleExport after "await stopPlayback(...)"
handlerResume ==
  /\ mq # <<>> /\ pc[Next1] = "h_resume"
  /\ IF kind[Next1] = "pause" THEN Commit(EndTask(Pop, Next1))
     ELSE \E outcome \in (IF kind[Next1] = "export" THEN StartOutcomes ELSE {"ok"}) :
            Commit(startAnimation(Pop, Next1, outcome))

\* startAnimation after "await startRecording()", started = true
recordingStarted ==
  /\ mq # <<>> /\ pc[Next1] = "rec_ok"
  /\ Commit(startRun(Pop, Next1))

\* startAnimation after "await startRecording()", started = false
recordingNotStarted ==
  /\ mq # <<>> /\ pc[Next1] = "rec_fail"
  /\ Commit(stopPlayback(Pop, Next1, TRUE, "fail"))

\* startAnimation after "await stopPlayback(true)" of the failure path
failureReturn ==
  /\ mq # <<>> /\ pc[Next1] = "fail_resume"
  /\ Commit(EndTask(Pop, Next1))

\* stopRecording after "await gate.promise"
stopRecordingResume ==
  /\ mq # <<>> /\ pc[Next1] = "sr_gate"
  /\ Commit(stopRecordingTail(Pop, Next1))

\* variant: the exposed artifact is left as it is
stopPlaybackTail_keepsUrl(s, t) ==
  LET s1 == [s EXCEPT !.isRecording = FALSE]
  IN CASE s1.caller[t] = "handler" -> Enqueue(s1, t, "h_resume")
       [] s1.caller[t] = "fail" -> Enqueue(s1, t, "fail_resume")
       [] OTHER -> EndTask(s1, t)

\* stopPlayback after "await stopRecording(true)"
stopPlaybackTail(s, t) ==
  LET s1 == updateDownloadUrl([s EXCEPT !.isRecording = FALSE], 0)
  IN CASE s1.caller[t] = "handler" -> Enqueue(s1, t, "h_resume")
       [] s1.caller[t] = "fail" -> Enqueue(s1, t, "fail_resume")
       [] OTHER -> EndTask(s1, t)

stopPlaybackResume ==
  /\ mq # <<>> /\ pc[Next1] = "sp_resume"
  /\ Commit(stopPlaybackTail(Pop, Next1))

\* animateTo after its "await new Promise": it returns to startAnimation
animateToResume ==
  /\ mq # <<>> /\ pc[Next1] = "anim_resume"
  /\ Commit(Enqueue(Pop, Next1, "phase_resume"))

\* startAnimation after "await animateTo(...)"
phaseResume ==
  /\ mq # <<>> /\ pc[Next1] = "phase_resume"
  /\ Commit(runFrom(Pop, Next1, idx[Next1], pos[Next1] + 1))

\* startAnimation after "await stopRecording(false)"
runEndResume ==
  /\ mq # <<>> /\ pc[Next1] = "end_resume"
  /\ Commit(teardown(Pop, Next1))

Next ==
  \/ handlePlay
  \/ handlePause
  \/ handleExport
  \/ unmount
  \/ \E t \in Tasks : frameCallback(t)
  \/ \E r \in Recorders : recorderStopTask(r)
  \/ \E r \in Recorders : recorderErrorTask(r)
  \/ handlerResume
  \/ recordingStarted
  \/ recordingNotStarted
  \/ failureReturn
  \/ stopRecordingResume
  \/ stopPlaybackResume
  \/ animateToResume
  \/ phaseResume
  \/ runEndResume

Spec == Init /\ [][Next]_vars

\* ------------------------------------------------- the match indexer alone
\* the texts of at most n characters over an alphabet
Texts(chars, n) == UNION {[1..m -> chars] : m \in 0..n}

\* the stage with nothing staged, and any article and keyword text to search
SearchInit ==
  /\ InitWith(Setup(FALSE, 0, AllOn, "cinematic", TRUE, "ok"))
  /\ paragraphs \in UNION {[1..m -> Texts(ParagraphChars, MaxParagraphLen)] :
                             m \in 0..MaxParagraphs}
  /\ rawKeywords \in Texts(KeywordChars, MaxKeywordsLen)
  /\ matches = <<>>
  /\ searched = FALSE
  /\ NoCalls

\* collectMatches(article, rawKeywords)
search ==
  /\ ~searched
  /\ matches' = collectMatches(paragraphs, rawKeywords)
  /\ searched' = TRUE
  /\ UNCHANGED <<paragraphs, rawKeywords>>
  /\ UNCHANGED <<envVars, stageVars, callVars>>

SearchSpec == SearchInit /\ [][search]_vars

\* --------------------------------------------------- buildTimeline alone
\* the speed multipliers tried: below, inside and above the limits, the limits
\* themselves, and the values that are not finite
SpeedValues ==
  {MinusInfinity, Finite(-100), Finite(0), Finite(10), Finite(25), Finite(50),
   Finite(100), Finite(275), Finite(400), Finite(1000), PlusInfinity, NaN}

\* the fields of StagePhaseToggles
ToggleNames == {"intro", "pan", "zoom", "highlight", "hold", "transition"}

\* the match lists handed to buildTimeline
MatchLists ==
  LET one == [keyword : {<<"a">>, <<"A">>}, paragraphIndex : 0..(MaxParagraphs - 1),
              start : {0}, end : {1}]
  IN UNION {[1..n -> one] : n \in 0..MaxMatches}

\* the stage with nothing staged, and any matches and preferences to build from
TimelineInit ==
  /\ \E p \in [ToggleNames -> BOOLEAN], m \in {"cinematic", "centered"}, v \in SpeedValues :
       InitWith(AtSpeed(Setup(FALSE, 0, p, m, TRUE, "ok"), v))
  /\ paragraphs = <<>>
  /\ rawKeywords = <<>>
  /\ matches \in MatchLists
  /\ searched = FALSE
  /\ NoCalls

\* buildTimeline(matches, preferences)
build ==
  /\ ~built
  /\ items' = buildTimeline(matches, preferences)
  /\ multiplier' = clampSpeedMultiplier(preferences.speedMultiplier)
  /\ built' = TRUE
  /\ UNCHANGED <<envVars, stageVars, searchVars, layoutVars, colorVars, pageVars>>

TimelineSpec == TimelineInit /\ [][build]_vars

\* ----------------------------------------- the text layout of a frame alone
LayoutChars == {"a", "b", " ", "Idot"}

\* one side of a long paragraph: b everywhere but at the given positions
Side(len, spaces) == [i \in 1..len |-> IF i \in spaces THEN " " ELSE "b"]

\* paragraphs with one match of the keyword a and, on each side of it, a text
\* about as long as the snippet limit, with or without white space at the
\* places where the limit cuts
LongParagraphs ==
  {Side(lb, sb) \o <<"a">> \o Side(la, sa) :
     lb \in (BEFORE_SNIPPET_LIMIT - 1)..(BEFORE_SNIPPET_LIMIT + MaxOver),
     sb \in SUBSET (1..(MaxOver + 1)),
     la \in (AFTER_SNIPPET_LIMIT - 1)..(AFTER_SNIPPET_LIMIT + MaxOver),
     sa \in SUBSET ((AFTER_SNIPPET_LIMIT - 1)..(AFTER_SNIPPET_LIMIT + 1))}

\* the paragraphs laid out: every short text, and the long ones
LayoutParagraphs == Texts(LayoutChars, MaxSnippetLen) \cup LongParagraphs

\* the state after collectMatches has searched a one-paragraph article for the
\* keyword a, with any text area width and either truncation setting
LayoutInit ==
  /\ \E t \in BOOLEAN :
       InitWith([Setup(FALSE, 0, AllOn, "cinematic", TRUE, "ok") EXCEPT !.truncateText = t])
  /\ paragraphs \in {<<p>> : p \in LayoutParagraphs}
  /\ rawKeywords = <<"a">>
  /\ matches = collectMatches(paragraphs, rawKeywords)
  /\ searched = TRUE
  /\ NoBuild
  /\ NoPaint
  /\ NoPage
  /\ maxWidth \in 1..MaxLineWidth
  /\ drawn = 0
  /\ snippet = NoSnippet
  /\ lines = <<>>
  /\ laid = FALSE

\* the snippet split and the wrap of drawMatchFrame, for any of the matches
drawText ==
  /\ ~laid
  /\ \E k \in 1..Len(matches) :
       LET match == matches[k]
           paragraph == IF match.paragraphIndex < Len(paragraphs)
                          THEN paragraphs[match.paragraphIndex + 1] ELSE <<>>
           sn == snippetOf(paragraph, match, preferences)
       IN /\ drawn' = k
          /\ snippet' = sn
          /\ lines' = wrapTokens(buildTokens(sn.before, sn.target, sn.after), maxWidth)
  /\ laid' = TRUE
  /\ UNCHANGED <<maxWidth, envVars, stageVars, searchVars, timelineVars, colorVars, pageVars>>

LayoutSpec == LayoutInit /\ [][drawText]_vars

\* ------------------------------------- the colors of a frame alone
\* a hexadecimal digit, a letter that is none, the hash and the space
ColorChars == {"#", "a", "g", " "}

\* the fill style the last text drawn by drawMatchFrame leaves in the context
OverlayFillStyle == <<148, 163, 184>>

\* the stage with nothing staged, any text as the background color or as the
\* highlight color, and a context that is new or has drawn a frame before
ColorInit ==
  /\ \E c \in Texts(ColorChars, MaxColorLen) :
       \/ /\ InitWith([Setup(FALSE, 0, AllOn, "cinematic", TRUE, "ok")
                          EXCEPT !.backgroundColor = c])
          /\ highlightColor = DEFAULT_HIGHLIGHT_COLOR
       \/ /\ InitWith(Setup(FALSE, 0, AllOn, "cinematic", TRUE, "ok"))
          /\ highlightColor = c
  /\ fillStyle \in {InitialFillStyle, OverlayFillStyle}
  /\ rgb = <<0, 0, 0>>
  /\ painted = FALSE
  /\ NoSearch
  /\ NoBuild
  /\ NoLayout
  /\ NoPage

\* the colors of drawMatchFrame: the background fill and the highlight color
drawColors ==
  /\ ~painted
  /\ fillStyle' = fillStageBackground(fillStyle, preferences)
  /\ rgb' = hexToRgb(highlightColor)
  /\ painted' = TRUE
  /\ UNCHANGED <<highlightColor, envVars, stageVars, searchVars, timelineVars, layoutVars,
                  pageVars>>

ColorSpec == ColorInit /\ [][drawColors]_vars

\* --------------------------------------- runs that nothing interrupts
\* no invocation of a handler is alive: the stage is at rest
Quiet == \A t \in Tasks : kind[t] = "free"

\* the microtask at the head of the queue runs
Microtask ==
  \/ handlerResume
  \/ recordingStarted
  \/ recordingNotStarted
  \/ failureReturn
  \/ stopRecordingResume
  \/ stopPlaybackResume
  \/ animateToResume
  \/ phaseResume
  \/ runEndResume

\* a frame callback called with a timestamp at or past the end of its phase
lastFrame ==
  /\ Idle
  /\ \E t \in Tasks : \E ik \in raf[t] : Commit(step(St, t, ik, 2))

\* the encoder fires the events a stop() has queued
encoderStops == \E r \in Recorders : recorderStopTask(r)

\* Play and Export are requested only while the stage is at rest, so that no
\* run is cancelled; frames, encoder events and continuations as in Next
RunNext ==
  \/ Quiet /\ handlePlay
  \/ Quiet /\ handleExport
  \/ \E t \in Tasks : frameCallback(t)
  \/ encoderStops
  \/ \E r \in Recorders : recorderErrorTask(r)
  \/ Microtask

\* weak fairness of Microtask, written out: a continuation is enabled exactly
\* when the queue is not empty, and only continuations run then
MicrotasksRun == []<>(mq = <<>>) \/ []<><<mq # <<>>>>_vars

\* weak fairness of lastFrame, written out: it is enabled when the loop is
\* idle and a callback is scheduled, and its step ends the awaited phase
FramesAdvance ==
  \/ []<>(~Idle \/ \A t \in Tasks : raf[t] = {})
  \/ []<><<\E t \in Tasks : pc[t] = "anim_wait" /\ pc'[t] = "anim_resume">>_vars

\* weak fairness of encoderStops, written out
EncoderReports ==
  \/ []<>(~Idle \/ \A r \in Recorders : ~stopQueued[r])
  \/ []<><<\E r \in Recorders : stopQueued[r] /\ ~stopQueued'[r]>>_vars

\* the event loop runs every queued continuation, the timestamps of the frame
\* callbacks advance past the end of the phase, and the encoder fires the
\* events of a stop
RunSpec ==
  /\ Init
  /\ [][RunNext]_vars
  /\ MicrotasksRun
  /\ FramesAdvance
  /\ EncoderReports

\* ------------------------------- requests the buttons do not filter
\* handlePlay is called while the stage is playing
playWhilePlaying == isPlaying /\ playRequested

\* handleExport is called while the stage is recording
exportWhileRecording == isRecording /\ exportRequested

\* the stage with the handlers also called in the states in which their
\* buttons are disabled by isPlaying and isRecording
RequestNext ==
  \/ Next
  \/ playWhilePlaying
  \/ exportWhileRecording

RequestSpec == Init /\ [][RequestNext]_vars

\* ------------------------------- a timeline shorter than the matches
\* the props explored: MaxMatches matches with every phase on, at speed 4 in
\* cinematic mode and at speed 1 in centered mode
PropsSetups ==
  {AtSpeed(Setup(TRUE, MaxMatches, AllOn, "cinematic", TRUE, "ok"), Finite(400)),
   Setup(TRUE, MaxMatches, AllOn, "centered", TRUE, "ok")}

\* the stage mounted with the first n items of the timeline of its matches
PropsInit ==
  /\ NoSearch
  /\ NoCalls
  /\ \E c \in PropsSetups, n \in 0..MaxMatches :
       InitStage(c, SubSeq(buildTimeline(StagedMatches(c.nMatches), PreferencesOf(c)), 1, n))

\* uninterrupted runs of the stage over such props
PropsSpec == PropsInit /\ [][RunNext]_vars

\* ------------------------------------------------ the searches of the page
\* the characters of the topics and keyword texts typed into the form
TermChars == {"a", ","}

\* the values of the form's "Max matches" field: below, inside and above the
\* limits of handleSubmit
FormMaxMatches == {0, 1, 2, 3, 201}

\* the form submitted: its topic, keyword text and match limit
Forms ==
  [topic : Texts({"a"}, 1), keywords : Texts(TermChars, MaxKeywordsLen),
   maxMatches : FormMaxMatches]

\* the articles fetchArticleByTopic can resolve to
Articles ==
  [paragraphs : UNION {[1..m -> Texts({"a"}, MaxArticleLen)] : m \in 0..MaxParagraphs}]

\* handleSubmit of the search form: the payload handed to onSubmit. The stage
\* preferences of the form are the variable preferences.
payloadOf(form) ==
  [topic |-> trim(form.topic),
   keywords |-> trim(form.keywords),
   maxMatches |-> LET upper == IF form.maxMatches < 200 THEN form.maxMatches ELSE 200
                  IN IF upper > 1 THEN upper ELSE 1,
   stagePreferences |->
     [preferences EXCEPT !.speedMultiplier = Finite(clampSpeedMultiplier(@))]]

RECURSIVE pushTerm(_, _)
\* pushTerm for each of the terms in turn: a term joins the candidates unless
\* it is empty or its lower case has been seen
pushTerm(terms, candidateTerms) ==
  IF terms = <<>> THEN candidateTerms
  ELSE LET trimmed == trim(Head(terms))
           seen == {normalizeToken(candidateTerms[i]) : i \in 1..Len(candidateTerms)}
       IN IF trimmed = <<>> \/ normalizeToken(trimmed) \in seen
            THEN pushTerm(Tail(terms), candidateTerms)
            ELSE pushTerm(Tail(terms), Append(candidateTerms, trimmed))

\* the terms handleSearch fetches in turn: the topic, then the keywords
candidateTermsOf(payload) ==
  pushTerm(<<trim(payload.topic)>> \o splitKeywords(payload.keywords), <<>>)

\* the comparator handleSearch sorts with
compareMatches(a, b) ==
  IF a.paragraphIndex = b.paragraphIndex
    THEN a.start - b.start
    ELSE a.paragraphIndex - b.paragraphIndex

\* variant: the list is left in the order collectMatches returned
sortMatches_unsorted(ms) == ms

\* .sort(comparator), a stable sort: each match moves to the place given by the
\* number of matches that come before it
sortMatches(ms) ==
  LET before(j, i) == \/ compareMatches(ms[j], ms[i]) < 0
                      \/ compareMatches(ms[j], ms[i]) = 0 /\ j < i
      place(i) == Cardinality({j \in 1..Len(ms) : before(j, i)}) + 1
  IN [n \in 1..Len(ms) |-> ms[CHOOSE i \in 1..Len(ms) : place(i) = n]]

\* the state handleSearch sets when an article was found. The message and the
\* topic of the payload are left out.
ready(found, payload) ==
  LET staged == slice(sortMatches(collectMatches(found.paragraphs, payload.keywords)),
                      0, payload.maxMatches)
  IN [status |-> "ready",
      article |-> <<found>>,
      matches |-> staged,
      timeline |-> buildTimeline(staged, payload.stagePreferences),
      payload |-> <<[keywords |-> payload.keywords, maxMatches |-> payload.maxMatches,
                     stagePreferences |-> payload.stagePreferences]>>]

\* the state handleSearch sets when no article was found or a fetch threw
failed == [INITIAL_STATE EXCEPT !.status = "error"]

\* a click on "Generate matches", which is disabled while a search is loading:
\* handleSubmit, and handleSearch up to its first fetch
handleSubmit ==
  /\ appState.status # "loading"
  /\ \E form \in Forms :
       LET payload == payloadOf(form)
           candidateTerms == candidateTermsOf(payload)
       IN IF candidateTerms = <<>>
            THEN /\ appState' = failed
                 /\ pending' = NoRequest
            ELSE /\ appState' = [appState EXCEPT !.status = "loading"]
                 /\ pending' = [awaiting |-> TRUE, payload |-> <<payload>>,
                                candidateTerms |-> candidateTerms, term |-> 1]
  /\ UNCHANGED <<envVars, stageVars, searchVars, timelineVars, layoutVars, colorVars>>

\* fetchArticleByTopic resolves, to an article or to null: handleSearch goes on
\* to its next fetch or to its end
fetchResolves ==
  /\ pending.awaiting
  /\ \E result \in {<<>>} \cup {<<found>> : found \in Articles} :
       IF result # <<>>
         THEN /\ appState' = ready(result[1], pending.payload[1])
              /\ pending' = NoRequest
       ELSE IF pending.term < Len(pending.candidateTerms)
         THEN /\ pending' = [pending EXCEPT !.term = @ + 1]
              /\ UNCHANGED appState
       ELSE /\ appState' = failed
            /\ pending' = NoRequest
  /\ UNCHANGED <<envVars, stageVars, searchVars, timelineVars, layoutVars, colorVars>>

\* fetchArticleByTopic rejects: the catch block of handleSearch
fetchRejects ==
  /\ pending.awaiting
  /\ appState' = failed
  /\ pending' = NoRequest
  /\ UNCHANGED <<envVars, stageVars, searchVars, timelineVars, layoutVars, colorVars>>

\* the stage changes the preferences, here the playback mode: the timeline is
\* built again from the staged matches. Without a payload nothing changes.
handleStagePreferencesChange ==
  /\ appState.payload # <<>>
  /\ \E m \in {"cinematic", "centered"} :
       LET nextPreferences == [appState.payload[1].stagePreferences EXCEPT !.playbackMode = m]
       IN appState' = [appState EXCEPT
                         !.timeline = buildTimeline(appState.matches, nextPreferences),
                         !.payload[1].stagePreferences = nextPreferences]
  /\ UNCHANGED pending
  /\ UNCHANGED <<envVars, stageVars, searchVars, timelineVars, layoutVars, colorVars>>

\* the page as loaded
PageInit ==
  /\ InitWith(Setup(FALSE, 0, AllOn, "cinematic", TRUE, "ok"))
  /\ NoSearch
  /\ NoCalls

PageNext == handleSubmit \/ fetchResolves \/ fetchRejects \/ handleStagePreferencesChange

PageSpec == PageInit /\ [][PageNext]_vars

\* =============================================================== claims
\* runs that hold a controller and are not cancelled
LiveRuns == {t \in Tasks : hasCtrl[t] /\ ~cancelled[t]}

\* C1: at most one playback run that is alive and not cancelled exists at any
\* time, under every interleaving of Play, Pause, Export, frame callbacks and
\* encoder events.
C1_AtMostOneLiveRun == Cardinality(LiveRuns) <= 1

\* C2: a run whose controller is marked cancelled never draws another frame:
\* every drawMatchFrame call of a step is made by a run that is not cancelled
\* at the time of the call.
C2_NoDrawAfterCancel == \A n \in 1..Len(drawLog) : ~drawLog[n].cancelled

\* C2 witness: a run cancelled inside a phase has resumed and still has a
\* later match ahead of it
C2_Witness ==
  \E t \in Tasks : hasCtrl[t] /\ cancelled[t] /\ pc[t] = "phase_resume" /\ idx[t] + 1 < nMatches

InSeq(x, seq) == \E n \in 1..Len(seq) : seq[n] = x

\* C3: a run cancelled while it waits inside a phase is released by the
\* cancellation and is never left pending: in every state a cancelled run
\* either has its continuation queued as a microtask, or awaits (in its final
\* stopRecording) a gate whose encoder has its finalization task queued.
C3_CancelledRunNeverPending ==
  \A t \in Tasks :
    (hasCtrl[t] /\ cancelled[t]) =>
       \/ InSeq(t, mq)
       \/ /\ pc[t] = "sr_gate"
          /\ \E r \in Recorders : InSeq(t, gateWaiters[r]) /\ stopQueued[r]

\* C3 witness: a run has been cancelled inside a phase and its promise resolved
C3_Witness == \E t \in Tasks : hasCtrl[t] /\ cancelled[t] /\ pc[t] = "anim_resume"

\* gates nothing can resolve any more: unresolved, their encoder inactive with
\* no stop task queued (only onstop and onerror resolve a gate)
DeadGates ==
  {r \in Recorders : ~gateResolved[r] /\ recState[r] = "inactive" /\ ~stopQueued[r]}

\* C4: every call of stopRecording returns, whatever the encoder does: no call
\* ever awaits a gate that nothing can resolve any more.
C4_NoStopAwaitsDeadGate ==
  \A t \in Tasks : \A r \in Recorders :
    (pc[t] = "sr_gate" /\ InSeq(t, gateWaiters[r])) => r \notin DeadGates

\* a capture session asked to stop and not yet finalized: the gate is unresolved
Finalizing == \E r \in Recorders : stopQueued[r] /\ ~gateResolved[r]

\* C5: while a capture session asked to stop has not finished finalizing, no
\* step creates the controller of a new run or starts a new capture session.
C5_NoStartWhileFinalizing ==
  [][Finalizing =>
       /\ \A t \in Tasks : hasCtrl'[t] => hasCtrl[t]
       /\ \A r \in Recorders : recState'[r] = "recording" => recState[r] = "recording"]_vars

\* C6: the finalize handler of a session stopped with abort=true never
\* assembles a blob (and so never sets the download URL).
C6_AbortedNeverAssembles == lastFinal.aborted => ~lastFinal.assembled

\* stop(abort=true) calls (made through stopPlayback(true)) awaiting the gate
AbortStopsWaiting == {t \in Tasks : pc[t] = "sr_gate" /\ caller[t] # "end"}

\* C7: a second stop(abort=true), made while the first still awaits the gate,
\* returns: two such calls never await together a gate nothing can resolve.
C7_SecondStopReturns ==
  \A r \in Recorders :
    Cardinality({t \in AbortStopsWaiting : InSeq(t, gateWaiters[r])}) >= 2 => r \notin DeadGates

\* C8: a finalize with abort=false and at least one chunk exposes exactly one
\* new artifact, the previous URL being revoked; at most one unrevoked URL
\* exists (the exposed one), and hasExport is true exactly when a download URL
\* is exposed.
C8_OneArtifact ==
  /\ Cardinality(liveUrls) <= 1
  /\ hasExport <=> downloadUrl # 0
  /\ liveUrls = IF downloadUrl # 0 THEN {downloadUrl} ELSE {}
  /\ (lastFinal.rec # 0 /\ ~lastFinal.abortRef /\ lastFinal.chunks > 0) =>
        /\ lastFinal.assembled
        /\ downloadUrl # 0
        /\ downloadUrl # lastFinal.prevUrl
        /\ lastFinal.prevUrl \notin liveUrls

\* C8 witness: a session has just finalized and exposed its artifact
C8_Witness == lastFinal.assembled /\ ~lastFinal.aborted /\ hasExport

\* every continuation triggered by the last Pause has run: the microtask queue
\* is empty, the Pause handler has returned and no cancelled run is left
PauseSettled ==
  /\ pausedMid /\ mq = <<>>
  /\ \A t \in Tasks : kind[t] # "pause" /\ ~(hasCtrl[t] /\ cancelled[t])

\* C9: after a Pause cancelled a run inside a phase and its continuations have
\* run, isPlaying is false and phaseLabel is idle, until the next Play or Export.
C9_IdleAfterPause == PauseSettled => (~isPlaying /\ phaseLabel = "idle")

\* the position of a phase in the fixed order
Rank(phase) ==
  CASE phase = "intro" -> 1
    [] phase = "pan" -> 2
    [] phase = "zoom" -> 3
    [] phase = "highlight" -> 4
    [] phase = "hold" -> 5
    [] phase = "transition" -> 6

\* C10: within a match the executed phases follow the order intro, pan, zoom,
\* highlight, hold, transition, each at most once, and no two phases of a run
\* are in progress at once: a run has at most one pending phase promise and at
\* most one scheduled frame, which belongs to the phase started last.
C10_PhaseOrderNoOverlap ==
  \A t \in Tasks :
    /\ \A m, n \in 1..Len(started[t]) : m < n => Rank(started[t][m]) < Rank(started[t][n])
    /\ Len(cancelCallbacks[t]) <= 1
    /\ Cardinality(raf[t]) <= 1
    /\ \A ik \in raf[t] :
         /\ pc[t] = "anim_wait" /\ started[t] # <<>>
         /\ ik[1] = idx[t] /\ PhaseChain[ik[2]] = started[t][Len(started[t])]

\* C10 witness: a run has executed the six phases of a match
C10_Witness == \E t \in Tasks : Len(started[t]) = 6 /\ hasCtrl[t] /\ ~cancelled[t]

\* the timeline duration of a phase of match i (0-based)
timelineMs(i, phase) ==
  CASE phase = "pan" -> timeline[i + 1].panMs
    [] phase = "zoom" -> timeline[i + 1].zoomMs
    [] phase = "highlight" -> timeline[i + 1].highlightMs
    [] phase = "hold" -> timeline[i + 1].holdMs
    [] phase = "transition" -> timeline[i + 1].transitionMs

\* what the phase rule asks for: intro whenever enabled, any other phase when
\* enabled with a nonzero timeline duration
ShouldRun(i, phase) ==
  IF phase = "intro" THEN phases.intro ELSE phases[phase] /\ timelineMs(i, phase) # 0

PhaseNames == {PhaseChain[k] : k \in 1..Len(PhaseChain)}

\* C11: for every match, pan, zoom, highlight, hold and transition execute iff
\* their toggle is on and their timeline duration for the match is nonzero;
\* intro executes iff its toggle is on, always with the duration 240 ms.  Every
\* executed phase satisfies the rule, and a run that leaves its match loop
\* uncancelled has executed, for every match, every phase the rule asks for.
C11_PhaseRunsIffEnabled ==
  /\ \A t \in Tasks : \A n \in 1..Len(executed[t]) :
        /\ ShouldRun(executed[t][n].index, executed[t][n].phase)
        /\ executed[t][n].phase = "intro" => executed[t][n].ms = 240
        /\ executed[t][n].phase # "intro" =>
              executed[t][n].ms = timelineMs(executed[t][n].index, executed[t][n].phase)
  /\ (lastExit.run # 0 /\ ~lastExit.cancelled) =>
        \A i \in 0..(nMatches - 1) : \A phase \in PhaseNames :
          ShouldRun(i, phase) =>
            Cardinality({n \in 1..Len(lastExit.executed) :
                           /\ lastExit.executed[n].index = i
                           /\ lastExit.executed[n].phase = phase}) = 1

\* C11 witness: an uncancelled run has left its match loop after executing
\* intro, with pan enabled at a zero timeline duration and speed 4
C11_Witness ==
  /\ lastExit.run # 0 /\ ~lastExit.cancelled
  /\ \E n \in 1..Len(lastExit.executed) : lastExit.executed[n].phase = "intro"
  /\ phases.pan /\ timeline[1].panMs = 0 /\ timeline[1].transitionMs = 360

\* C12: a run processes the matches strictly in sequence: it enters the indexes
\* 0, 1, 2, ... in that order, each once, and an uncancelled run leaves the loop
\* after n-1; every frame drawn belongs to the match the run is in at the time
\* of the draw, and no frame callback or phase promise of an earlier match is
\* pending once the run has entered the next match.
C12_MatchesSequential ==
  /\ \A t \in Tasks :
        /\ \A m \in 1..Len(visited[t]) : visited[t][m] = m - 1
        /\ hasCtrl[t] => (visited[t] # <<>> /\ idx[t] = Len(visited[t]) - 1)
        /\ \A ik \in raf[t] : ik[1] = idx[t]
        /\ \A n \in 1..Len(cancelCallbacks[t]) : cancelCallbacks[t][n][1] = idx[t]
  /\ \A n \in 1..Len(drawLog) : drawLog[n].index = drawLog[n].current
  /\ \A m, n \in 1..Len(drawLog) :
        (m < n /\ drawLog[m].run = drawLog[n].run) => drawLog[m].index <= drawLog[n].index
  /\ (lastExit.run # 0 /\ ~lastExit.cancelled) => Len(lastExit.visited) = nMatches

\* C12 witness: an uncancelled run has left the loop after MaxMatches matches in
\* which it executed phases
C12_Witness ==
  /\ lastExit.run # 0 /\ ~lastExit.cancelled
  /\ Len(lastExit.visited) = MaxMatches /\ MaxMatches > 1
  /\ Len(lastExit.executed) >= 2 * MaxMatches

\* C13: at the start of every match the frame state is reset to the baseline
\* {scale 0.94, offsetY 0, highlightAlpha 0} and exactly one frame is drawn with
\* it before any phase of the match starts: every frame drawn before the first
\* phase of its match carries the baseline, no two such frames of a step belong
\* to the same run and match, and a run inside a match has drawn exactly one.
C13_BaselineFrameAtMatchStart ==
  /\ \A n \in 1..Len(drawLog) : drawLog[n].pre => drawLog[n].state = Baseline
  /\ \A m, n \in 1..Len(drawLog) :
        (m < n /\ drawLog[m].pre /\ drawLog[n].pre /\ drawLog[m].run = drawLog[n].run)
          => drawLog[m].index # drawLog[n].index
  /\ \A t \in Tasks : hasCtrl[t] => preFrames[t] = 1

\* C13 witness: a run enters its second match after a transition left the scale
\* at 1, and draws the first frame of that match
C13_Witness ==
  \E n \in 1..Len(drawLog) :
    /\ drawLog[n].pre /\ drawLog[n].index = 1
    /\ \E e \in 1..Len(executed[drawLog[n].run]) :
         executed[drawLog[n].run][e].phase = "transition"

\* runs that are executing a phase: alive, not cancelled, awaiting its promise
RunsInPhase == {t \in LiveRuns : pc[t] = "anim_wait"}

\* C14: the observable outputs track the scheduler: while an alive, uncancelled
\* run is executing phase p of match i, phaseLabel = p, activeIndex = i and
\* isPlaying is true; whenever no run is alive, isPlaying is false and
\* phaseLabel is idle.
C14_OutputsTrackScheduler ==
  /\ \A t \in RunsInPhase :
        /\ phaseLabel = PhaseChain[pos[t]]
        /\ activeIndex = idx[t]
        /\ isPlaying
  /\ (\A t \in Tasks : ~hasCtrl[t]) => (~isPlaying /\ phaseLabel = "idle")

\* no article, or an empty match list
InputMissing == ~article \/ nMatches = 0

\* the next step is the call of startAnimation by handlePlay or handleExport
StartAnimationStep ==
  mq # <<>> /\ pc[Next1] = "h_resume" /\ kind[Next1] \in {"play", "export"}

\* nothing of a run or of a capture session exists
FullyStopped ==
  /\ \A t \in Tasks : ~hasCtrl[t] /\ raf[t] = {}
  /\ \A r \in Recorders : recState[r] = "inactive" /\ ~stopQueued[r]
  /\ animationRef = 0 /\ recorderRef = 0 /\ recordingGateRef = 0
  /\ drawLog = <<>>
  /\ ~isPlaying /\ ~isRecording /\ phaseLabel = "idle"

\* C15: Play or Export requested with no article or with an empty match list
\* sets the error message and changes nothing else: no controller, recorder or
\* gate is created, no run draws, and isPlaying, isRecording and phaseLabel keep
\* the values of the fully stopped state.
C15_InputErrorLeavesStopped ==
  /\ [](InputMissing => FullyStopped)
  /\ [][(InputMissing /\ StartAnimationStep) => error' = "noMatches"]_vars

\* C15 witness: a request was made with matches staged and no article
C15_Witness == ~article /\ nMatches > 0 /\ error = "noMatches"

\* the runtime offers no MediaRecorder or no captureStream
CaptureUnsupported == capture # "ok"

\* the next step resumes startAnimation after startRecording returned false
StartFailedStep == mq # <<>> /\ pc[Next1] = "rec_fail"

\* no recorder and no gate exist, and isRecording is false
RecordingOff ==
  /\ ~isRecording /\ recorderRef = 0 /\ recordingGateRef = 0
  /\ \A r \in Recorders : recState[r] = "inactive" /\ ~stopQueued[r]

\* C16: Export in a runtime without MediaRecorder or captureStream fails to
\* start capture with an error message, recording stays off (isRecording false,
\* no recorder, no gate), and the run requested by the export still plays: the
\* step after the failed start creates its controller and sets isPlaying.
C16_UnsupportedCaptureStillPlays ==
  /\ [](CaptureUnsupported => RecordingOff)
  /\ [][(CaptureUnsupported /\ StartAnimationStep /\ kind[Next1] = "export"
          /\ mounted /\ ctxOk)
         => error' \in {"noMediaRecorder", "noCaptureStream"}]_vars
  /\ [][(CaptureUnsupported /\ StartFailedStep)
         => (hasCtrl'[Next1] /\ ~cancelled'[Next1] /\ isPlaying')]_vars

\* the step is the encoder of recorder r failing while it records
ErrorStep(r) == recState[r] = "recording" /\ recState'[r] = "inactive" /\ ~stopQueued'[r]

\* no handler or run is in flight
Quiescent == mq = <<>> /\ \A t \in Tasks : kind[t] = "free"

\* C17: an encoder error during an export surfaces an error message and
\* resolves the gate without interrupting the playback run, and the session is
\* torn down: once no handler or run is in flight after the error, isRecording
\* is false, no recorder, gate or chunk is referenced, and Export is enabled.
C17_EncoderErrorTornDown ==
  /\ [][\A r \in Recorders : ErrorStep(r) =>
          /\ error' = "recordingFailed"
          /\ gateResolved'[r] /\ gateWaiters'[r] = <<>>
          /\ ~isRecording'
          /\ hasCtrl' = hasCtrl /\ cancelled' = cancelled /\ raf' = raf
          /\ animationRef' = animationRef /\ isPlaying' = isPlaying
          /\ phaseLabel' = phaseLabel]_vars
  /\ []((Quiescent /\ error = "recordingFailed") =>
          /\ ~isRecording /\ recorderRef = 0 /\ recordingGateRef = 0 /\ chunksRef = <<>>
          /\ mounted => ~exportDisabled)

\* C17 witness: the encoder failed during an export and everything has returned
C17_Witness == Quiescent /\ error = "recordingFailed" /\ mounted

\* ensureContext() returns null: no canvas, or no 2d context
SurfaceUnavailable == ~(mounted /\ ctxOk)

\* C18: when the drawing surface is unavailable at the time startAnimation is
\* called for Play or Export, the error is reported and nothing is partially
\* done: no frame is drawn, no capture session is started, no controller is
\* created and isPlaying stays false.
C18_NoSurfaceNothingDone ==
  /\ [][(~InputMissing /\ StartAnimationStep /\ SurfaceUnavailable) =>
          /\ error' = "noContext"
          /\ drawLog' = <<>>
          /\ hasCtrl' = hasCtrl /\ animationRef' = animationRef /\ raf' = raf
          /\ recState' = recState /\ recorderRef' = recorderRef
          /\ recordingGateRef' = recordingGateRef /\ isRecording' = isRecording
          /\ ~isPlaying /\ ~isPlaying']_vars
  /\ [](~ctxOk => FullyStopped)

\* C18 witness: a request found no drawing surface
C18_Witness == error = "noContext"

\* two texts are equal without regard to case
CaseEq(x, y) == normalizeToken(x) = normalizeToken(y)

\* the ends q of the spans [p, q) of a paragraph that equal the keyword
\* case-insensitively
SpanEnds(para, keyword, p) ==
  {q \in (p + 1)..Len(para) : CaseEq(SubSeq(para, p + 1, q), keyword)}

RECURSIVE Occurrences(_, _, _)
\* the spans a case-insensitive left-to-right scan of the paragraph finds from
\* position from on, resuming at the end of each hit
Occurrences(para, keyword, from) ==
  LET at == {p \in from..(Len(para) - 1) : SpanEnds(para, keyword, p) # {}}
  IN IF at = {} THEN {}
     ELSE LET p == CHOOSE i \in at : \A j \in at : i <= j
              q == CHOOSE i \in SpanEnds(para, keyword, p) :
                     \A j \in SpanEnds(para, keyword, p) : i <= j
          IN {<<p, q>>} \cup Occurrences(para, keyword, q)

\* C19: collectMatches reports, for each keyword entry (duplicates included)
\* and each paragraph, exactly the occurrences of a case-insensitive
\* left-to-right scan that resumes at the end of each hit: every reported match
\* is such an occurrence of one of the entries, and every such occurrence is
\* reported once per entry with that keyword text.
C19_EveryOccurrenceOnce ==
  searched =>
    LET keywords == splitKeywords(rawKeywords)
    IN /\ \A n \in 1..Len(matches) :
            /\ matches[n].paragraphIndex \in 0..(Len(paragraphs) - 1)
            /\ \E k \in 1..Len(keywords) : keywords[k] = matches[n].keyword
            /\ <<matches[n].start, matches[n].end>>
                  \in Occurrences(paragraphs[matches[n].paragraphIndex + 1],
                                  matches[n].keyword, 0)
       /\ \A k \in 1..Len(keywords) : \A pi \in 0..(Len(paragraphs) - 1) :
            \A h \in Occurrences(paragraphs[pi + 1], keywords[k], 0) :
              Cardinality({n \in 1..Len(matches) :
                             matches[n] = [keyword |-> keywords[k], paragraphIndex |-> pi,
                                           start |-> h[1], end |-> h[2]]})
                = Cardinality({j \in 1..Len(keywords) : keywords[j] = keywords[k]})

RECURSIVE KeywordMajorFrom(_, _, _, _)
\* the matches of every (keyword entry, paragraph) pair from (k, pi) on, in
\* keyword-major order, each pair's matches by position
KeywordMajorFrom(paras, keywords, k, pi) ==
  IF k > Len(keywords) THEN <<>>
  ELSE IF pi >= Len(paras) THEN KeywordMajorFrom(paras, keywords, k + 1, 0)
  ELSE scanPair(paras, keywords, pi, k) \o KeywordMajorFrom(paras, keywords, k, pi + 1)

\* C20: the list collectMatches returns is ordered keyword-major, then by
\* paragraph, then by position: all matches of the first keyword (by paragraph,
\* then start offset), then all matches of the second keyword, and so on.
C20_KeywordMajorOrder ==
  searched => matches = KeywordMajorFrom(paragraphs, splitKeywords(rawKeywords), 1, 0)

\* C21: every match collectMatches returns has a valid paragraphIndex and
\* 0 <= start < end <= length of that paragraph, and the paragraph text between
\* start and end equals the keyword case-insensitively.
C21_MatchSpanInParagraph ==
  searched =>
    \A n \in 1..Len(matches) :
      /\ matches[n].paragraphIndex \in 0..(Len(paragraphs) - 1)
      /\ 0 <= matches[n].start
      /\ matches[n].start < matches[n].end
      /\ matches[n].end <= Len(paragraphs[matches[n].paragraphIndex + 1])
      /\ CaseEq(SubSeq(paragraphs[matches[n].paragraphIndex + 1],
                       matches[n].start + 1, matches[n].end),
                matches[n].keyword)

\* the positions of the separators of a raw keyword text, with both ends
Cuts(raw) ==
  {0, Len(raw) + 1} \cup {i \in 1..Len(raw) : raw[i] \in {",", ";", "nl"}}

\* a text without its leading and trailing white space
Stripped(piece) ==
  LET ink == {i \in 1..Len(piece) : piece[i] \notin {" ", "nl"}}
  IN IF ink = {} THEN <<>>
     ELSE SubSeq(piece, CHOOSE i \in ink : \A j \in ink : i <= j,
                        CHOOSE i \in ink : \A j \in ink : j <= i)

\* the stripped piece between the cut a and the next cut
PieceAfter(raw, a) ==
  LET later == {c \in Cuts(raw) : c > a}
  IN Stripped(SubSeq(raw, a + 1, (CHOOSE c \in later : \A d \in later : c <= d) - 1))

\* the nonempty stripped pieces of a raw keyword text, in the order of the text
KeywordsOf(raw) ==
  LET kept == {a \in Cuts(raw) \ {Len(raw) + 1} : PieceAfter(raw, a) # <<>>}
  IN [n \in 1..Cardinality(kept) |->
        PieceAfter(raw, CHOOSE a \in kept : Cardinality({b \in kept : b < a}) = n - 1)]

\* C22: the raw keyword text is split at every comma, semicolon and newline,
\* each piece is trimmed and the empty pieces are dropped; when no keyword
\* remains collectMatches returns the empty list whatever the article.
C22_KeywordsSplitTrimmedNonEmpty ==
  searched =>
    /\ splitKeywords(rawKeywords) = KeywordsOf(rawKeywords)
    /\ (KeywordsOf(rawKeywords) = <<>> => matches = <<>>)

\* a text split at a newline, its first piece trimmed, the empty piece after
\* the newline dropped, and the keyword found
C22_Witness ==
  /\ searched
  /\ rawKeywords = <<" ", "a", "nl">>
  /\ splitKeywords(rawKeywords) = <<(<<"a">>)>>
  /\ matches # <<>>

\* the multiplier in hundredths that the speed laws give a number: the nearest
\* value of [0.25, 4] for a finite number, 1 for a number that is not finite
SpeedLaw(value) ==
  IF value.kind = "finite"
    THEN IF value.h < 25 THEN 25 ELSE IF value.h > 400 THEN 400 ELSE value.h
    ELSE 100

\* the base durations of a playback mode, as the profiles are documented
Profile(mode) ==
  IF mode = "centered"
    THEN [pan |-> 0, zoom |-> 0, highlight |-> 140, hold |-> 120, transition |-> 90]
    ELSE [pan |-> 400, zoom |-> 450, highlight |-> 200, hold |-> 200, transition |-> 120]

\* the duration of a phase in a timeline item
DurationOf(item, ph) ==
  CASE ph = "pan" -> item.panMs
    [] ph = "zoom" -> item.zoomMs
    [] ph = "highlight" -> item.highlightMs
    [] ph = "hold" -> item.holdMs
    [] ph = "transition" -> item.transitionMs

\* r is base * m / 100 rounded to the nearest integer, halves upwards
IsRounded(r, base, m) == 100 * r - 50 <= base * m /\ base * m < 100 * r + 50

\* C23: for every match and each of pan, zoom, highlight, hold and transition,
\* the duration is round(base x clamped speed) when the toggle is enabled and 0
\* when it is disabled, the base taken from the profile of the playback mode;
\* the durations are determined by the inputs.
C23_DurationsFromProfileAndSpeed ==
  built =>
    \A i \in 1..Len(items) :
      \A ph \in {"pan", "zoom", "highlight", "hold", "transition"} :
        IF preferences.phases[ph]
          THEN IsRounded(DurationOf(items[i], ph),
                         Profile(preferences.playbackMode)[ph],
                         SpeedLaw(preferences.speedMultiplier))
          ELSE DurationOf(items[i], ph) = 0

\* cinematic at speed 2.75: zoom is 450 x 2.75 = 1237.5, rounded to 1238, and
\* the disabled hold is 0
C23_Witness ==
  /\ built
  /\ Len(items) = 1
  /\ preferences.playbackMode = "cinematic"
  /\ preferences.speedMultiplier = Finite(275)
  /\ preferences.phases.zoom
  /\ ~preferences.phases.hold
  /\ items[1].zoomMs = 1238
  /\ items[1].holdMs = 0

\* the items buildTimeline returned pair with the matches, position by position
ItemsPairMatches ==
  built =>
    /\ Len(items) = Len(matches)
    /\ \A i \in 1..Len(items) :
         /\ items[i].keyword = matches[i].keyword
         /\ items[i].paragraphIndex = matches[i].paragraphIndex
         /\ \A ph \in {"pan", "zoom", "highlight", "hold", "transition"} :
              DurationOf(items[i], ph) \in Nat

\* a call of buildTimeline
BuildStep == ~built /\ built'

\* C24: buildTimeline returns one item per match, item i carrying the keyword
\* and paragraphIndex of match i and five nonnegative integer durations, and
\* the call leaves the matches and the preferences as they were.
C24_OneItemPerMatchInOrder ==
  /\ []ItemsPairMatches
  /\ [][BuildStep => matches' = matches /\ preferences' = preferences]_vars

\* two matches of different keywords, built
C24_Witness ==
  /\ built
  /\ Len(matches) = 2
  /\ matches[1].keyword # matches[2].keyword
  /\ matches[1].paragraphIndex # matches[2].paragraphIndex
  /\ Len(items) = 2

\* a number below a limit, above a limit, as the order of numbers has it
\* (the infinities included, NaN compared with nothing)
Below(value, h) == value.kind = "-Infinity" \/ (value.kind = "finite" /\ value.h < h)

Above(value, h) == value.kind = "Infinity" \/ (value.kind = "finite" /\ value.h > h)

\* C25 as stated: every value below 0.25 maps to 0.25, every value above 4 to
\* 4, the values of [0.25, 4] are unchanged, and NaN maps to 1.
C25_ClampLaws ==
  built =>
    LET value == preferences.speedMultiplier
    IN /\ Below(value, 25) => multiplier = 25
       /\ Above(value, 400) => multiplier = 400
       /\ (value.kind = "finite" /\ value.h >= 25 /\ value.h <= 400) => multiplier = value.h
       /\ value = NaN => multiplier = 100

\* C25 amended: every finite value below 0.25 maps to 0.25, every finite value
\* above 4 to 4, the values of [0.25, 4] are unchanged, and NaN, +Infinity and
\* -Infinity map to 1.
C25_ClampLawsFinite ==
  built =>
    LET value == preferences.speedMultiplier
    IN /\ (value.kind = "finite" /\ value.h < 25) => multiplier = 25
       /\ (value.kind = "finite" /\ value.h > 400) => multiplier = 400
       /\ (value.kind = "finite" /\ value.h >= 25 /\ value.h <= 400) => multiplier = value.h
       /\ value.kind # "finite" => multiplier = 100

\* +Infinity, which is above 4, clamped to 1
C25_Witness ==
  /\ built
  /\ preferences.speedMultiplier = PlusInfinity
  /\ multiplier = 100

\* the tokens of the wrapped lines that are highlighted, as <<line, position>>
HighlightPlaces ==
  UNION {{<<l, n>> : n \in {m \in 1..Len(lines[l]) : lines[l][m].type = "highlight"}} :
           l \in 1..Len(lines)}

\* C26: after wrapping, the highlighted segment is one token on exactly one
\* line, holding the whole target: it is never split across two lines.
C26_HighlightOnOneLine ==
  laid =>
    /\ Cardinality(HighlightPlaces) = 1
    /\ \A pl \in HighlightPlaces : lines[pl[1]][pl[2]].text = snippet.target

\* C27: no line wrapTokens produced is wider, as the sum of its tokens'
\* measured widths, than the max width.
C27_NoLineWiderThanMax ==
  laid => \A l \in 1..Len(lines) : measureLineWidth(lines[l]) <= maxWidth

\* the paragraph and the match of the layout made
DrawnParagraph == paragraphs[matches[drawn].paragraphIndex + 1]

\* the paragraph text before, inside and after the span of the match drawn
PartsOfDrawn ==
  LET p == DrawnParagraph
      lo == IF matches[drawn].start < Len(p) THEN matches[drawn].start ELSE Len(p)
      hi == IF matches[drawn].end < Len(p) THEN matches[drawn].end ELSE Len(p)
  IN [before |-> [i \in 1..lo |-> p[i]],
      target |-> [i \in 1..(hi - lo) |-> p[lo + i]],
      after |-> [i \in 1..(Len(p) - hi) |-> p[hi + i]]]

\* a text from its first character that is not white space on
LeftTrimmed(text) ==
  LET ink == {i \in 1..Len(text) : text[i] \notin {" ", "nl"}}
  IN IF ink = {} THEN <<>>
     ELSE [i \in 1..(Len(text) + 1 - Min(ink)) |-> text[Min(ink) - 1 + i]]

\* a text up to its last character that is not white space
RightTrimmed(text) ==
  LET ink == {i \in 1..Len(text) : text[i] \notin {" ", "nl"}}
  IN [i \in 1..Cardinality({j \in 1..Len(text) : \E k \in ink : j <= k}) |-> text[i]]

\* C28: with truncation enabled, the text before the match is kept whole when
\* it has at most 80 characters and is otherwise its trailing 80 characters,
\* left-trimmed, after an ellipsis marker; the text after the match is kept
\* whole when it has at most 80 characters and is otherwise its leading 80
\* characters, right-trimmed, before an ellipsis marker; the target is never
\* truncated; with truncation disabled before and after are kept whole.
C28_SnippetsTruncatedAtEighty ==
  laid =>
    LET parts == PartsOfDrawn
        nb == Len(parts.before)
        na == Len(parts.after)
    IN /\ snippet.target = parts.target
       /\ snippet.before =
            IF preferences.truncateText /\ nb > 80
              THEN <<".", ".", ".">> \o LeftTrimmed([i \in 1..80 |-> parts.before[nb - 80 + i]])
              ELSE parts.before
       /\ snippet.after =
            IF preferences.truncateText /\ na > 80
              THEN RightTrimmed([i \in 1..80 |-> parts.after[i]]) \o <<".", ".", ".">>
              ELSE parts.after

\* 82 characters on each side of the match, a space where each cut falls:
\* before is the marker and 79 characters, after is 79 characters and the marker
C28_Witness ==
  /\ laid
  /\ preferences.truncateText
  /\ Len(PartsOfDrawn.before) = 82
  /\ Len(PartsOfDrawn.after) = 82
  /\ PartsOfDrawn.before[3] = " "
  /\ PartsOfDrawn.after[80] = " "
  /\ Len(snippet.before) = 82
  /\ Len(snippet.after) = 82
  /\ snippet.target = <<"a">>

\* a text of the form #RRGGBB
ValidHashColor(text) ==
  /\ Len(text) = 7
  /\ text[1] = "#"
  /\ \A i \in 2..7 : text[i] \in {"0", "1", "2", "3", "4", "5", "6", "7", "8", "9",
                                    "a", "b", "c", "d", "e", "f",
                                    "A", "B", "C", "D", "E", "F"}

\* C29: a background color that is no valid #RRGGBB value is painted as the
\* default background #0f172a, and a highlight color that is no valid #RRGGBB
\* value is used as the default highlight #facc15.
C29_InvalidColorsFallBack ==
  painted =>
    /\ (~ValidHashColor(preferences.backgroundColor) => fillStyle = <<15, 23, 42>>)
    /\ (~ValidHashColor(highlightColor) => rgb = <<250, 204, 21>>)

\* pan, zoom, highlight, hold or transition is enabled for match i (0-based)
\* and has the timeline duration zero
ZeroEnabled(i, phase) ==
  /\ phase \in {"pan", "zoom", "highlight", "hold", "transition"}
  /\ phases[phase]
  /\ i + 1 <= Len(timeline)
  /\ timelineMs(i, phase) = 0

\* C30 as stated: an enabled phase whose duration is zero is executed by
\* snapping (animateTo with duration 0: the frame state set to the target,
\* one frame drawn, no frame callback scheduled): a run that leaves its match
\* loop uncancelled has made that call once for every such phase of every match.
C30_ZeroDurationPhaseSnaps ==
  (lastExit.run # 0 /\ ~lastExit.cancelled) =>
    \A i \in 0..(nMatches - 1) : \A phase \in PhaseNames :
      ZeroEnabled(i, phase) =>
        Cardinality({n \in 1..Len(lastExit.executed) :
                       lastExit.executed[n] = [index |-> i, phase |-> phase, ms |-> 0]}) = 1

\* C30 amended: with the integer durations buildTimeline produces, an enabled
\* phase whose duration is zero is skipped: animateTo is never called with a
\* zero duration, no frame is drawn under the label of such a phase, and a run
\* that leaves its match loop has executed no such phase.
C30_ZeroDurationPhaseSkipped ==
  /\ \A t \in Tasks : \A n \in 1..Len(executed[t]) :
        /\ executed[t][n].ms > 0
        /\ ~ZeroEnabled(executed[t][n].index, executed[t][n].phase)
  /\ \A n \in 1..Len(drawLog) : ~ZeroEnabled(drawLog[n].index, drawLog[n].phase)
  /\ lastExit.run # 0 =>
        \A n \in 1..Len(lastExit.executed) :
          ~ZeroEnabled(lastExit.executed[n].index, lastExit.executed[n].phase)

\* centered mode with intro, pan and transition enabled: an uncancelled run has
\* left its match loop having executed intro and transition and not the pan,
\* which is enabled with duration zero
C30_Witness ==
  /\ lastExit.run # 0 /\ ~lastExit.cancelled
  /\ ZeroEnabled(0, "pan")
  /\ Len(lastExit.executed) = 2
  /\ lastExit.executed[1].phase = "intro"
  /\ lastExit.executed[2].phase = "transition"

\* ---------------------------------------------------------------- C31
FrameFields == {"scale", "offsetY", "highlightAlpha"}

\* the fields each phase animates and the values they end at, in hundredths
\* for scale and highlightAlpha
AnimatedTo(phase) ==
  CASE phase = "intro" -> [f \in {"scale"} |-> 100]
    [] phase = "pan" -> [f \in {"offsetY"} |-> -60]
    [] phase = "zoom" -> [f \in {"scale"} |-> 118]
    [] phase = "highlight" -> [f \in {"highlightAlpha"} |-> 100]
    [] phase = "hold" -> [f \in {} |-> 0]
    [] phase = "transition" ->
         [f \in FrameFields |-> IF f = "scale" THEN 100 ELSE 0]

\* run t is inside a phase and stays in it, or completes it, in this step
InPhaseStep(t) ==
  /\ pc[t] = "anim_wait"
  /\ pc'[t] \in {"anim_wait", "anim_resume"}

\* C31: in every step of a phase, each frame the run draws carries the phase's
\* label and the run's frame state, and every field the phase does not
\* animate keeps the value it had before the step, hence the value it had
\* when the phase started; when the phase completes without cancellation the
\* fields it animates equal the phase's target exactly
C31_PhaseEndsAtTarget ==
  [][\A t \in Tasks :
       InPhaseStep(t) =>
         LET phase == PhaseChain[pos[t]]
             goal == AnimatedTo(phase)
         IN /\ \A f \in FrameFields \ DOMAIN goal :
                  currentState'[t][f] = currentState[t][f]
            /\ \A j \in 1..Len(drawLog') :
                  drawLog'[j].run = t =>
                    /\ drawLog'[j].phase = phase
                    /\ drawLog'[j].state = currentState'[t]
            /\ (pc'[t] = "anim_resume" /\ ~cancelled'[t]) =>
                  \A f \in DOMAIN goal : currentState'[t][f] = goal[f]]_vars

\* a transition has completed uncancelled from a zoomed, panned and
\* highlighted frame, and a frame of it was drawn
C31_Witness ==
  \E t \in Tasks :
    /\ pc[t] = "anim_resume" /\ ~cancelled[t]
    /\ PhaseChain[pos[t]] = "transition"
    /\ startState[t] = [scale |-> 118, offsetY |-> -60, highlightAlpha |-> 100]
    /\ currentState[t] = [scale |-> 100, offsetY |-> 0, highlightAlpha |-> 0]
    /\ \E j \in 1..Len(drawLog) : drawLog[j].run = t /\ drawLog[j].phase = "transition"

\* ---------------------------------------------------------------- C32
\* C32: the frame state of every run, and of every frame drawn, has a
\* positive scale and a highlightAlpha between 0 and 1, whatever timestamps
\* the frame callbacks are called with
C32_FrameStateInRange ==
  /\ \A t \in Tasks :
       /\ currentState[t].scale > 0
       /\ currentState[t].highlightAlpha >= 0
       /\ currentState[t].highlightAlpha <= 100
  /\ \A j \in 1..Len(drawLog) :
       /\ drawLog[j].state.scale > 0
       /\ drawLog[j].state.highlightAlpha >= 0
       /\ drawLog[j].state.highlightAlpha <= 100

\* ---------------------------------------------------------------- C33
\* the end-of-run teardown of run t happens in this step
TeardownStep(t) ==
  /\ kind[t] \in {"play", "export"} /\ hasCtrl[t]
  /\ kind'[t] = "free"

\* C33: animationRef refers to the controller of every run that is alive and
\* not cancelled, and the teardown of a run leaves animationRef, isPlaying and
\* phaseLabel alone while another run is alive and not cancelled
C33_ControllerRefIsLiveRun ==
  /\ [](\A t \in LiveRuns : animationRef = t)
  /\ [][\A t \in Tasks :
          (TeardownStep(t) /\ LiveRuns \ {t} # {}) =>
            /\ animationRef' = animationRef
            /\ isPlaying' = isPlaying
            /\ phaseLabel' = phaseLabel]_vars

\* ---------------------------------------------------------------- C34
\* the encoders that have been started and not stopped
ActiveEncoders == {r \in Recorders : recState[r] # "inactive"}

\* C34: at most one encoder is not inactive, and an encoder that has not been
\* stopped is the one recorderRef refers to, with its gate in recordingGateRef
C34_OneEncoderOwned ==
  /\ Cardinality(ActiveEncoders) <= 1
  /\ \A r \in ActiveEncoders : recorderRef = r /\ recordingGateRef = r

\* an encoder started by a second Export is recording and owned by both
\* references while the invocation of an earlier Export is still alive
C34_Witness ==
  \E r \in Recorders :
    /\ recState[r] = "recording" /\ recorderRef = r /\ recordingGateRef = r
    /\ Cardinality({t \in Tasks : kind[t] = "export"}) >= 2

\* ---------------------------------------------------------------- C35
\* isPlaying = false, phaseLabel = idle, isRecording = false, no controller
RunStopped ==
  /\ ~isPlaying /\ phaseLabel = "idle" /\ ~isRecording /\ animationRef = 0

\* the positions at which a continuation resumes
ResumePoints ==
  {"h_resume", "rec_ok", "rec_fail", "fail_resume", "sr_gate", "sp_resume",
   "anim_resume", "phase_resume", "end_resume"}

\* what the fairness conditions rest on: a queued continuation can run, and a
\* scheduled frame callback belongs to the phase its uncancelled run awaits
Schedulable ==
  /\ mq # <<>> => pc[Head(mq)] \in ResumePoints
  /\ \A t \in Tasks :
       raf[t] # {} => /\ pc[t] = "anim_wait" /\ ~cancelled[t]
                      /\ raf[t] = {<<idx[t], pos[t]>>}

PlayStep ==
  \/ mq # <<>> /\ kind[Head(mq)] = "play"
  \/ mq = <<>> /\ \E t \in Tasks : kind[t] = "free" /\ kind'[t] = "play"
  \/ /\ mq = <<>> /\ kind' = kind /\ mounted' = mounted
     /\ \E t \in Tasks :
          /\ kind[t] = "play" /\ raf[t] # {}
          /\ \/ raf'[t] # raf[t]
             \/ \E j \in 1..Len(drawLog') : drawLog'[j].run = t

\* stopPlayback(true) called by Pause or by Export is about to return
TeardownReturns ==
  /\ mq # <<>> /\ pc[Head(mq)] = "sp_resume"
  /\ kind[Head(mq)] \in {"pause", "export"}

\* handlePause or handleExport resumes after its await of stopPlayback(true)
AfterTeardown ==
  /\ mq # <<>> /\ pc[Head(mq)] = "h_resume"
  /\ kind[Head(mq)] \in {"pause", "export"}

\* C36: the stopPlayback(true) of Pause and of Export ends with no artifact
\* exposed, whether or not a capture session was active, and none is exposed
\* when the handler resumes; no step of a Play request changes the exposed
\* artifact
C36_TeardownRevokesArtifact ==
  [][/\ TeardownReturns => (downloadUrl' = 0 /\ ~hasExport')
     /\ AfterTeardown => (downloadUrl = 0 /\ ~hasExport)
     /\ PlayStep => (downloadUrl' = downloadUrl /\ hasExport' = hasExport)]_vars

\* a Pause of a plain playback is about to return while an artifact exported
\* earlier is exposed and no capture session exists
C36_Witness ==
  /\ mq # <<>> /\ pc[Head(mq)] = "sp_resume" /\ kind[Head(mq)] = "pause"
  /\ downloadUrl # 0 /\ hasExport
  /\ \A t \in Tasks : kind[t] # "export"
  /\ \E t \in Tasks : kind[t] = "play" /\ cancelled[t]
  /\ \A r \in Recorders : recState[r] = "inactive" /\ ~stopQueued[r]

\* ---------------------------------------------------------------- C37
\* the step is a call of handlePlay while isPlaying, or of handleExport while
\* isRecording
IgnoredRequest ==
  \/ lastRequest' = "play" /\ isPlaying
  \/ lastRequest' = "export" /\ isRecording

\* C37: Play requested while isPlaying and Export requested while isRecording
\* change nothing: no run is cancelled, no controller, encoder or invocation
\* is created, nothing is scheduled or queued, and isPlaying, isRecording,
\* phaseLabel, the active match index, the error and the exposed artifact are
\* as before
C37_RequestsIgnoredWhileBusy ==
  [][IgnoredRequest =>
       /\ UNCHANGED <<animationRef, cancelled, hasCtrl, frameId, cancelCallbacks>>
       /\ UNCHANGED <<recorderRef, recordingGateRef, recordingAbortRef, chunksRef>>
       /\ UNCHANGED <<recState, stopQueued, gateResolved, gateWaiters>>
       /\ UNCHANGED <<kind, pc, caller, raf, mq, idx, pos, currentState>>
       /\ UNCHANGED <<isPlaying, isRecording, phaseLabel, activeIndex, error>>
       /\ UNCHANGED <<downloadUrl, hasExport, liveUrls>>
       /\ drawLog' = <<>>]_vars

\* handlePlay has just been called while a run was inside a phase
C37_Witness ==
  /\ lastRequest = "play" /\ isPlaying
  /\ animationRef # 0 /\ pc[animationRef] = "anim_wait" /\ ~cancelled[animationRef]

\* handleExport has just been called while the encoder was recording
C37_WitnessExport ==
  /\ lastRequest = "export" /\ isRecording
  /\ recorderRef # 0 /\ recState[recorderRef] = "recording"

\* ---------------------------------------------------------------- C38
\* the tokens given to wrapTokens for the snippet drawn
InputTokens == buildTokens(snippet.before, snippet.target, snippet.after)

\* a token of white space only
PureSpace(token) == \A n \in 1..Len(token.text) : isSpace(token.text[n])

RECURSIVE Joined(_)
\* the lines one after the other
Joined(ls) == IF ls = <<>> THEN <<>> ELSE Head(ls) \o Joined(Tail(ls))

\* the number of tokens in the first l lines
TokensUpTo(l) == Len(Joined(SubSeq(lines, 1, l)))

\* the line that ends just before place j of the joined lines, if one does
LineEndingBefore(j) == {l \in 1..Len(lines) : TokensUpTo(l) = j - 1}

RECURSIVE Accounted(_, _)
\* the input tokens from i on are the joined lines from j on, except for
\* white-space tokens that came right after the end of a line they did not
\* fit on
Accounted(i, j) ==
  IF i > Len(InputTokens) THEN j > Len(Joined(lines))
  ELSE \/ /\ j <= Len(Joined(lines))
          /\ InputTokens[i] = Joined(lines)[j]
          /\ Accounted(i + 1, j + 1)
       \/ /\ PureSpace(InputTokens[i])
          /\ \E l \in LineEndingBefore(j) :
               measureLineWidth(lines[l]) + measureText(InputTokens[i].text) > maxWidth
          /\ Accounted(i + 1, j)

\* C38: the wrapped lines, one after the other, are the input tokens in their
\* order, less white-space tokens that would have started a new line; no line
\* is empty and no line after the first begins with a white-space token
C38_WrapLosesNoContent ==
  laid =>
    /\ Accounted(1, 1)
    /\ \A l \in 1..Len(lines) : lines[l] # <<>>
    /\ \A l \in 2..Len(lines) : ~PureSpace(lines[l][1])

\* ---------------------------------------------------------------- C39
\* the cinematic default durations
DefaultMs(phase) ==
  CASE phase = "pan" -> 400
    [] phase = "zoom" -> 450
    [] phase = "highlight" -> 200
    [] phase = "hold" -> 200
    [] phase = "transition" -> 120

\* the duration the run is to use for a phase of match i (0-based)
ExpectedMs(i, phase) ==
  IF phase = "intro" THEN INTRO_DURATION
  ELSE IF i < Len(timeline) THEN DurationOf(timeline[i + 1], phase)
  ELSE DefaultMs(phase)

\* C39: every phase a run executes for match i has the duration of
\* timeline[i], or the cinematic default when the timeline has no item at i,
\* whatever the speed multiplier and the playback mode; and an uncancelled
\* run has executed, for each match, exactly the enabled phases whose
\* duration so determined is positive
C39_DurationsFromTimelineOrDefault ==
  /\ \A t \in Tasks : \A n \in 1..Len(executed[t]) :
       executed[t][n].ms = ExpectedMs(executed[t][n].index, executed[t][n].phase)
  /\ (lastExit.run # 0 /\ ~lastExit.cancelled) =>
        \A i \in 0..(nMatches - 1), phase \in PhaseNames :
          (phases[phase] /\ ExpectedMs(i, phase) > 0)
            <=> \E n \in 1..Len(lastExit.executed) :
                  /\ lastExit.executed[n].index = i
                  /\ lastExit.executed[n].phase = phase

\* an uncancelled run has finished over a timeline with one item for several
\* matches: the second match ran its pan for 400 ms although the first ran
\* it for the timeline's duration
C39_Witness ==
  /\ lastExit.run # 0 /\ ~lastExit.cancelled
  /\ Len(timeline) = 1 /\ nMatches = MaxMatches
  /\ timeline[1].panMs # 400
  /\ \E n \in 1..Len(lastExit.executed) :
       lastExit.executed[n] = [index |-> 1, phase |-> "pan", ms |-> 400]

\* the list is in the order of paragraph index, then of start offset
SortedMatches(ms) ==
  \A i, j \in 1..Len(ms) :
    i < j => \/ ms[i].paragraphIndex < ms[j].paragraphIndex
             \/ /\ ms[i].paragraphIndex = ms[j].paragraphIndex
                /\ ms[i].start <= ms[j].start

\* C40: once a search has succeeded the staged matches are sorted by paragraph
\* index and then by start offset, are at most maxMatches, a limit between 1
\* and 200, and the staged timeline has one item per staged match in the same
\* order; once a search has failed the article is null and the matches and the
\* timeline are empty.
C40_SearchStagesSortedMatches ==
  /\ appState.status = "ready" =>
       /\ appState.article # <<>>
       /\ SortedMatches(appState.matches)
       /\ appState.payload[1].maxMatches >= 1
       /\ appState.payload[1].maxMatches <= 200
       /\ Len(appState.matches) <= appState.payload[1].maxMatches
       /\ Len(appState.timeline) = Len(appState.matches)
       /\ \A i \in 1..Len(appState.matches) :
            /\ appState.timeline[i].keyword = appState.matches[i].keyword
            /\ appState.timeline[i].paragraphIndex = appState.matches[i].paragraphIndex
  /\ appState.status = "error" =>
       /\ appState.article = <<>>
       /\ appState.matches = <<>>
       /\ appState.timeline = <<>>

\* a search has succeeded whose matches collectMatches returned out of order
\* and in a greater number than the limit, over two paragraphs
C40_Witness ==
  /\ appState.status = "ready"
  /\ LET found == collectMatches(appState.article[1].paragraphs,
                                 appState.payload[1].keywords)
     IN /\ ~SortedMatches(found)
        /\ Len(found) > Len(appState.matches)
        /\ Len(appState.matches) = appState.payload[1].maxMatches
        /\ \E i \in 1..Len(appState.matches) : appState.matches[i].paragraphIndex = 1

====
